---- MODULE Spec2Model ----
(***************************************************************************)
(* A model of @dreamer/cache: the in-memory adapter (MemoryAdapter, a Map  *)
(* plus the accessOrder array, with LRU / FIFO / LFU eviction and TTL) and *)
(* the cascading MultiLevelCache built on a list of CacheAdapter levels.   *)
(*                                                                         *)
(* A JavaScript Map iterates in insertion order and Map.set on a key that  *)
(* is already present keeps the key's position, so the Map is a sequence   *)
(* of items, each carrying its key.  undefined is the string "undefined";  *)
(* an unset expiresAt is 0, which the code's truthiness test               *)
(* (item.expiresAt && ...) treats like undefined.  Time is counted in     *)
(* whole ttl units: expiresAt = now + ttl.                                 *)
(***************************************************************************)
EXTENDS Integers, Sequences, FiniteSets, TLC

VARIABLES adapters, now, last, recency, call, inflight

vars == <<adapters, now, last, recency, call, inflight>>

(***************************************************************************)
(* Bounds of the model.                                                    *)
(***************************************************************************)
MaxTime == 3
MaxCount == 2
MaxSizeBound == 2
MaxLevels == 3
MaxInflight == 2

MaxHits == 1

MaxExternal == 1

JoinLevels == 2

(***************************************************************************)
(* Values of the program.                                                  *)
(***************************************************************************)
undefined == "undefined"
Infinity == 1000000
Strategies == {"lru", "fifo", "lfu"}

\* The empty string is a key like any other (key: string).
AllKeys == {"", "a", "b"}
AllValues == {"v1", "v2"}
AllTags == {"t1", "t2"}

(***************************************************************************)
(* CacheItem and the Map<string, CacheItem>.                               *)
(***************************************************************************)
CacheItem(key, value, expiresAt, accessedAt, accessCount, tags) ==
    [key |-> key, value |-> value, expiresAt |-> expiresAt,
     accessedAt |-> accessedAt, accessCount |-> accessCount, tags |-> tags]

\* Array.prototype.indexOf, 1-based; 0 stands for -1.
indexOf(seq, key) ==
    IF \E i \in 1..Len(seq) : seq[i] = key
    THEN CHOOSE i \in 1..Len(seq) :
             seq[i] = key /\ \A j \in 1..(i - 1) : seq[j] # key
    ELSE 0

\* Array.prototype.splice(index, 1)
splice(seq, index) ==
    SubSeq(seq, 1, index - 1) \o SubSeq(seq, index + 1, Len(seq))

MapKeys(cache) == [i \in 1..Len(cache) |-> cache[i].key]

MapKeySet(cache) == {cache[i].key : i \in 1..Len(cache)}

MapHas(cache, key) == key \in MapKeySet(cache)

MapGet(cache, key) == cache[indexOf(MapKeys(cache), key)]

\* Map.prototype.set: in place when the key is present, appended otherwise.
MapSet(cache, item) ==
    IF MapHas(cache, item.key)
    THEN [cache EXCEPT ![indexOf(MapKeys(cache), item.key)] = item]
    ELSE Append(cache, item)

\* Map.prototype.delete
MapDelete(cache, key) ==
    IF MapHas(cache, key)
    THEN splice(cache, indexOf(MapKeys(cache), key))
    ELSE cache

SeqToSet(seq) == {seq[i] : i \in 1..Len(seq)}

(***************************************************************************)
(* MemoryAdapter                                                           *)
(***************************************************************************)
\* constructor: the options and the empty Map; the sweep timer runs iff a
\* default ttl > 0 was given.
MemoryAdapter(ttl, maxSize, strategy) ==
    [kind |-> "memory",
     ttl |-> ttl,
     maxSize |-> IF maxSize = 0 THEN Infinity ELSE maxSize,
     strategy |-> strategy,
     cache |-> <<>>,
     accessOrder |-> <<>>,
     cleanupTimer |-> (ttl > 0)]

\* item.expiresAt && Date.now() > item.expiresAt
IsExpired(item, t) == item.expiresAt # 0 /\ t > item.expiresAt

\* A removal without the test of the index: splice(-1, 1) takes the last
\* key off the array.
removeFromAccessOrder_Unguarded(order, key) ==
    IF indexOf(order, key) # 0 THEN splice(order, indexOf(order, key))
    ELSE SubSeq(order, 1, Len(order) - 1)

removeFromAccessOrder(order, key) ==
    IF indexOf(order, key) # 0 THEN splice(order, indexOf(order, key)) ELSE order

updateAccessOrder(order, key) ==
    Append(removeFromAccessOrder(order, key), key)

\* The lfu scan of evict: the first key, in Map order, with the least
\* accessCount (the comparison is strict).
LfuVictim(cache) ==
    LET i == CHOOSE i \in 1..Len(cache) :
                 /\ \A j \in 1..Len(cache) :
                        cache[i].accessCount <= cache[j].accessCount
                 /\ \A j \in 1..(i - 1) :
                        cache[j].accessCount > cache[i].accessCount
    IN cache[i].key

\* evict: shift() the accessOrder (fifo, lru) or scan (lfu); the result of
\* shift() on an empty array is undefined.  The key is removed from the Map
\* only when it is truthy: "" and undefined are not.
evict(a) ==
    IF Len(a.cache) = 0 THEN a
    ELSE
      LET shifted == a.strategy \in {"fifo", "lru"} /\ Len(a.accessOrder) > 0
          keyToRemove ==
              IF a.strategy \in {"fifo", "lru"}
              THEN IF shifted THEN Head(a.accessOrder) ELSE undefined
              ELSE LfuVictim(a.cache)
          order1 == IF shifted THEN Tail(a.accessOrder) ELSE a.accessOrder
      IN IF keyToRemove # "" /\ keyToRemove # undefined
         THEN [a EXCEPT !.cache = MapDelete(a.cache, keyToRemove),
                        !.accessOrder = removeFromAccessOrder(order1, keyToRemove)]
         ELSE [a EXCEPT !.accessOrder = order1]

\* const expiresAt = ttl ? now + ttl : options.ttl > 0 ? now + options.ttl : undefined
ExpiresAt(a, ttl, t) ==
    IF ttl # 0 THEN t + ttl
    ELSE IF a.ttl > 0 THEN t + a.ttl
    ELSE 0

\* A set that makes room whenever the Map is full, also for a held key.
MemoryAdapter_set_EvictsAlways(a, key, value, ttl, tags, t) ==
    LET item == CacheItem(key, value, ExpiresAt(a, ttl, t), t, 0, tags)
        b == IF Len(a.cache) >= a.maxSize THEN evict(a) ELSE a
    IN [b EXCEPT !.cache = MapSet(b.cache, item),
                 !.accessOrder = IF b.strategy \in {"fifo", "lru"}
                                 THEN updateAccessOrder(b.accessOrder, key)
                                 ELSE b.accessOrder]

\* A set that keeps the expiry and the tags of a held key.
MemoryAdapter_set_Merges(a, key, value, ttl, tags, t) ==
    LET item == CacheItem(key, value, ExpiresAt(a, ttl, t), t, 0, tags)
    IN IF MapHas(a.cache, key)
       THEN [a EXCEPT !.cache = MapSet(a.cache,
                                   [MapGet(a.cache, key) EXCEPT !.value = value,
                                                                !.accessedAt = t,
                                                                !.accessCount = 0]),
                      !.accessOrder = IF a.strategy = "lru"
                                      THEN updateAccessOrder(a.accessOrder, key)
                                      ELSE a.accessOrder]
       ELSE LET b == IF Len(a.cache) >= a.maxSize THEN evict(a) ELSE a
            IN [b EXCEPT !.cache = MapSet(b.cache, item),
                         !.accessOrder = IF b.strategy \in {"fifo", "lru"}
                                         THEN Append(b.accessOrder, key)
                                         ELSE b.accessOrder]

\* A set that keeps the accessCount of a held key.
MemoryAdapter_set_KeepsCount(a, key, value, ttl, tags, t) ==
    LET item == CacheItem(key, value, ExpiresAt(a, ttl, t), t,
                          IF MapHas(a.cache, key)
                          THEN MapGet(a.cache, key).accessCount ELSE 0, tags)
    IN IF MapHas(a.cache, key)
       THEN [a EXCEPT !.cache = MapSet(a.cache, item),
                      !.accessOrder = IF a.strategy = "lru"
                                      THEN updateAccessOrder(a.accessOrder, key)
                                      ELSE a.accessOrder]
       ELSE LET b == IF Len(a.cache) >= a.maxSize THEN evict(a) ELSE a
            IN [b EXCEPT !.cache = MapSet(b.cache, item),
                         !.accessOrder = IF b.strategy \in {"fifo", "lru"}
                                         THEN Append(b.accessOrder, key)
                                         ELSE b.accessOrder]

\* set(key, value, ttl?, tags?); ttl = 0 and tags = {} stand for omitted.
MemoryAdapter_set(a, key, value, ttl, tags, t) ==
    LET item == CacheItem(key, value, ExpiresAt(a, ttl, t), t, 0, tags)
    IN IF MapHas(a.cache, key)
       THEN [a EXCEPT !.cache = MapSet(a.cache, item),
                      !.accessOrder = IF a.strategy = "lru"
                                      THEN updateAccessOrder(a.accessOrder, key)
                                      ELSE a.accessOrder]
       ELSE LET b == IF Len(a.cache) >= a.maxSize THEN evict(a) ELSE a
            IN [b EXCEPT !.cache = MapSet(b.cache, item),
                         !.accessOrder = IF b.strategy \in {"fifo", "lru"}
                                         THEN Append(b.accessOrder, key)
                                         ELSE b.accessOrder]

\* A get that leaves out the expiry check.
MemoryAdapter_get_Unchecked(a, key, t) ==
    IF ~MapHas(a.cache, key) THEN [a |-> a, ret |-> undefined]
    ELSE LET item == MapGet(a.cache, key)
         IN [a |-> [a EXCEPT !.cache = MapSet(a.cache,
                                   [item EXCEPT !.accessedAt = t,
                                                !.accessCount = item.accessCount + 1]),
                               !.accessOrder = IF a.strategy = "lru"
                                               THEN updateAccessOrder(a.accessOrder, key)
                                               ELSE a.accessOrder],
             ret |-> item.value]

\* get(key): the adapter afterwards (.a) and the value returned (.ret).
MemoryAdapter_get(a, key, t) ==
    IF ~MapHas(a.cache, key) THEN [a |-> a, ret |-> undefined]
    ELSE LET item == MapGet(a.cache, key)
         IN IF IsExpired(item, t)
            THEN [a |-> [a EXCEPT !.cache = MapDelete(a.cache, key),
                                  !.accessOrder = removeFromAccessOrder(a.accessOrder, key)],
                  ret |-> undefined]
            ELSE [a |-> [a EXCEPT !.cache = MapSet(a.cache,
                                      [item EXCEPT !.accessedAt = t,
                                                   !.accessCount = item.accessCount + 1]),
                                  !.accessOrder = IF a.strategy = "lru"
                                                  THEN updateAccessOrder(a.accessOrder, key)
                                                  ELSE a.accessOrder],
                  ret |-> item.value]

\* delete(key)
MemoryAdapter_delete(a, key) ==
    [a EXCEPT !.cache = MapDelete(a.cache, key),
              !.accessOrder = removeFromAccessOrder(a.accessOrder, key)]

\* has(key): the adapter afterwards (.a) and the boolean returned (.ret).
\* A has that counts as an access, as get does.
MemoryAdapter_has_Touches(a, key, t) ==
    [a |-> MemoryAdapter_get(a, key, t).a,
     ret |-> MapHas(a.cache, key) /\ ~IsExpired(MapGet(a.cache, key), t)]

MemoryAdapter_has(a, key, t) ==
    IF ~MapHas(a.cache, key) THEN [a |-> a, ret |-> FALSE]
    ELSE IF IsExpired(MapGet(a.cache, key), t)
         THEN [a |-> MemoryAdapter_delete(a, key), ret |-> FALSE]
         ELSE [a |-> a, ret |-> TRUE]

\* The keys of the items of the Map that are expired at t, in Map order.
ExpiredKeys(cache, t) ==
    MapKeys(SelectSeq(cache, LAMBDA item : IsExpired(item, t)))

RECURSIVE RemoveKeys(_, _)
\* cache.delete(key); removeFromAccessOrder(key) for each key of a list.
RemoveKeys(a, keyList) ==
    IF keyList = <<>> THEN a
    ELSE RemoveKeys(MemoryAdapter_delete(a, Head(keyList)), Tail(keyList))

\* A keys that leaves the expired items where they are.
MemoryAdapter_keys_Keeps(a, t) ==
    [a |-> a, ret |-> MapKeys(SelectSeq(a.cache, LAMBDA item : ~IsExpired(item, t)))]

\* keys(): the adapter afterwards (.a) and the array returned (.ret).  An
\* item is kept when !item.expiresAt || now <= item.expiresAt.
MemoryAdapter_keys(a, t) ==
    [a |-> RemoveKeys(a, ExpiredKeys(a.cache, t)),
     ret |-> MapKeys(SelectSeq(a.cache, LAMBDA item : ~IsExpired(item, t)))]

\* clear()
MemoryAdapter_clear(a) == [a EXCEPT !.cache = <<>>, !.accessOrder = <<>>]

RECURSIVE MemoryAdapter_getMany(_, _, _)
\* getMany(keys): get for each key in turn; .ret is the record of the keys
\* whose value is not undefined.
MemoryAdapter_getMany(a, keyList, t) ==
    IF keyList = <<>> THEN [a |-> a, ret |-> <<>>]
    ELSE LET g == MemoryAdapter_get(a, Head(keyList), t)
             rest == MemoryAdapter_getMany(g.a, Tail(keyList), t)
         IN [a |-> rest.a,
             ret |-> IF g.ret # undefined
                     THEN <<<<Head(keyList), g.ret>>>> \o rest.ret
                     ELSE rest.ret]

RECURSIVE MemoryAdapter_setMany(_, _, _, _)
\* setMany(data, ttl?): set(key, value, ttl) for each entry in turn.
MemoryAdapter_setMany(a, data, ttl, t) ==
    IF data = <<>> THEN a
    ELSE MemoryAdapter_setMany(
             MemoryAdapter_set(a, Head(data)[1], Head(data)[2], ttl, {}, t),
             Tail(data), ttl, t)

\* deleteByTags(tags): the adapter afterwards (.a) and the count (.ret).
\* A deleteByTags that asks for all the tags given.
MemoryAdapter_deleteByTags_All(a, tags) ==
    IF tags = {} THEN [a |-> a, ret |-> 0]
    ELSE LET keysToDelete ==
                 MapKeys(SelectSeq(a.cache, LAMBDA item : tags \subseteq item.tags))
         IN [a |-> RemoveKeys(a, keysToDelete), ret |-> Len(keysToDelete)]

MemoryAdapter_deleteByTags(a, tags) ==
    IF tags = {} THEN [a |-> a, ret |-> 0]
    ELSE LET keysToDelete ==
                 MapKeys(SelectSeq(a.cache, LAMBDA item : item.tags \cap tags # {}))
         IN [a |-> RemoveKeys(a, keysToDelete), ret |-> Len(keysToDelete)]

\* A callback that removes nothing.
Cleanup_Idle(a, t) == a

\* The setInterval callback of startCleanup.
Cleanup(a, t) == RemoveKeys(a, ExpiredKeys(a.cache, t))

\* A stopCleanup that starts the timer when none is running.
MemoryAdapter_stopCleanup_Toggle(a) == [a EXCEPT !.cleanupTimer = ~@]

\* stopCleanup()
MemoryAdapter_stopCleanup(a) == [a EXCEPT !.cleanupTimer = FALSE]

(***************************************************************************)
(* The state: the adapters (one MemoryAdapter, or the levels of a          *)
(* MultiLevelCache), Date.now(), the last completed call with what it      *)
(* returned, and for each adapter the held keys in the order of their most *)
(* recent use (a successful get or a set), which is history kept for the   *)
(* statements about LRU and read by no operation.                          *)
(***************************************************************************)
Levels == 1..Len(adapters)

\* A completed call: its name, the adapter it was made on (0: the
\* MultiLevelCache), its key, what it returned (ret, or list for an array or
\* a record, or n for a count) and the keys it removed from the Map; of a
\* call of the MultiLevelCache also the value written, the adapter calls it
\* made (list) and the levels whose write failed.
Last(op, lvl, key, ret, list, n) ==
    [op |-> op, lvl |-> lvl, key |-> key, ret |-> ret, list |-> list, n |-> n,
     removed |-> {}, value |-> <<>>, failed |-> {}]

NoCall == [op |-> "none"]

BoolStr(b) == IF b THEN "true" ELSE "false"

\* The recency history after the keys of `used` were used in turn and the
\* adapter was left holding the keys of cache.
RECURSIVE Used(_, _)
Used(rec, used) ==
    IF used = <<>> THEN rec
    ELSE Used(Append(SelectSeq(rec, LAMBDA k : k # Head(used)), Head(used)),
              Tail(used))

Recency(rec, used, cache) ==
    SelectSeq(Used(rec, used), LAMBDA k : MapHas(cache, k))

\* The step of adapter i to a2 by a call that used the keys `used`.
Step(i, a2, used, l) ==
    /\ call = NoCall
    /\ adapters' = [adapters EXCEPT ![i] = a2]
    /\ recency' = [recency EXCEPT ![i] = Recency(recency[i], used, a2.cache)]
    /\ last' = [l EXCEPT !.removed = MapKeySet(adapters[i].cache) \ MapKeySet(a2.cache)]
    /\ UNCHANGED <<now, call, inflight>>

\* accessCount grows without bound in the program; the model stops reading
\* an item at MaxCount.
CanCount(a, key) ==
    MapHas(a.cache, key) /\ ~IsExpired(MapGet(a.cache, key), now)
        => MapGet(a.cache, key).accessCount < MaxCount

Set(i, key, value, ttl, tags) ==
    /\ adapters[i].kind = "memory"
    /\ Step(i, MemoryAdapter_set(adapters[i], key, value, ttl, tags, now), <<key>>,
            Last("set", i, key, undefined, <<>>, 0))

Get(i, key) ==
    /\ adapters[i].kind = "memory"
    /\ CanCount(adapters[i], key)
    /\ LET g == MemoryAdapter_get(adapters[i], key, now)
       IN Step(i, g.a, IF g.ret # undefined THEN <<key>> ELSE <<>>,
               Last("get", i, key, g.ret, <<>>, 0))

Delete(i, key) ==
    /\ adapters[i].kind = "memory"
    /\ Step(i, MemoryAdapter_delete(adapters[i], key), <<>>,
            Last("delete", i, key, undefined, <<>>, 0))

Has(i, key) ==
    /\ adapters[i].kind = "memory"
    /\ LET h == MemoryAdapter_has(adapters[i], key, now)
       IN Step(i, h.a, <<>>, Last("has", i, key, BoolStr(h.ret), <<>>, 0))

Keys(i) ==
    /\ adapters[i].kind = "memory"
    /\ LET r == MemoryAdapter_keys(adapters[i], now)
       IN Step(i, r.a, <<>>, Last("keys", i, "", undefined, r.ret, 0))

Clear(i) ==
    /\ adapters[i].kind = "memory"
    /\ Step(i, MemoryAdapter_clear(adapters[i]), <<>>,
            Last("clear", i, "", undefined, <<>>, 0))

GetMany(i, keyList) ==
    /\ adapters[i].kind = "memory"
    /\ \A n \in 1..Len(keyList) : CanCount(adapters[i], keyList[n])
    /\ LET r == MemoryAdapter_getMany(adapters[i], keyList, now)
       IN Step(i, r.a, [n \in 1..Len(r.ret) |-> r.ret[n][1]],
               Last("getMany", i, "", undefined, r.ret, 0))

SetMany(i, data, ttl) ==
    /\ adapters[i].kind = "memory"
    /\ Step(i, MemoryAdapter_setMany(adapters[i], data, ttl, now),
            [n \in 1..Len(data) |-> data[n][1]],
            Last("setMany", i, "", undefined, data, 0))

DeleteByTags(i, tags) ==
    /\ adapters[i].kind = "memory"
    /\ LET r == MemoryAdapter_deleteByTags(adapters[i], tags)
       IN Step(i, r.a, <<>>, Last("deleteByTags", i, "", undefined, <<>>, r.ret))

\* The interval timer fires.
Sweep(i) ==
    /\ adapters[i].kind = "memory"
    /\ adapters[i].cleanupTimer
    /\ Step(i, Cleanup(adapters[i], now), <<>>,
            Last("sweep", i, "", undefined, <<>>, 0))

StopCleanup(i) ==
    /\ adapters[i].kind = "memory"
    /\ Step(i, MemoryAdapter_stopCleanup(adapters[i]), <<>>,
            Last("stopCleanup", i, "", undefined, <<>>, 0))

\* Date.now() moves on.
Tick ==
    /\ now < MaxTime
    /\ now' = now + 1
    /\ UNCHANGED <<adapters, last, recency, call, inflight>>

(***************************************************************************)
(* EvictSpec: one MemoryAdapter with maxSize entries at most, under the    *)
(* calls that insert, read and remove entries; no ttl is in play.          *)
(***************************************************************************)
KeyLists == {<<k>> : k \in AllKeys} \cup {p \in AllKeys \X AllKeys : p[1] # p[2]}

DataLists == {<<<<p[1], "v1">>, <<p[2], "v1">>>> :
                 p \in {q \in AllKeys \X AllKeys : q[1] # q[2]}}

EvictInit ==
    /\ \E maxSize \in 1..MaxSizeBound, strategy \in Strategies :
           adapters = <<MemoryAdapter(0, maxSize, strategy)>>
    /\ now = 1
    /\ last = Last("new", 1, "", undefined, <<>>, 0)
    /\ recency = <<<<>>>>
    /\ call = NoCall
    /\ inflight = <<<<>>>>

EvictNext ==
    \/ \E key \in AllKeys : Set(1, key, "v1", 0, {})
    \/ \E key \in AllKeys : Get(1, key)
    \/ \E key \in AllKeys : Delete(1, key)
    \/ \E key \in AllKeys : Has(1, key)
    \/ Keys(1)
    \/ Clear(1)
    \/ \E keyList \in KeyLists : GetMany(1, keyList)
    \/ \E data \in DataLists : SetMany(1, data, 0)

EvictSpec == EvictInit /\ [][EvictNext]_vars

\* The single adapter of EvictSpec and TtlSpec, and the call just completed.
A1 == adapters[1]

SetOfNewKeyAtCapacity ==
    /\ last'.op = "set"
    /\ ~MapHas(A1.cache, last'.key)
    /\ Len(A1.cache) = A1.maxSize

\* The keys held after the call: those held before without the evicted
\* one, and the key that was set.
EvictedExactly(victim) ==
    MapKeySet(A1'.cache) = (MapKeySet(A1.cache) \ {victim}) \cup {last'.key}

\* C1: after every completed call the Map of a MemoryAdapter holds at most
\* maxSize entries.
C1_SizeAtMostMaxSize ==
    \A i \in Levels :
        adapters[i].kind = "memory" => Len(adapters[i].cache) <= adapters[i].maxSize

\* C2: under lru, a set of a key that is not held, into an adapter holding
\* maxSize entries, evicts exactly the held key whose most recent use (a
\* successful get or a set) is the oldest, and no other key.
C2_LruEvictsOldestUse ==
    [][(A1.strategy = "lru" /\ SetOfNewKeyAtCapacity)
           => EvictedExactly(Head(recency[1]))]_vars

\* C3: under fifo, a set of a key that is not held, into an adapter holding
\* maxSize entries, evicts exactly the held key whose residency began
\* earliest: the first key of the Map, whose order neither a get nor an
\* overwriting set changes.
C3_FifoEvictsOldestInsertion ==
    [][(A1.strategy = "fifo" /\ SetOfNewKeyAtCapacity)
           => EvictedExactly(MapKeys(A1.cache)[1])]_vars

\* C4: under lfu, a set of a key that is not held, into an adapter holding
\* maxSize entries, evicts exactly one held key, whose accessCount is at
\* most that of every other held key.
C4_LfuEvictsLeastCount ==
    [][(A1.strategy = "lfu" /\ SetOfNewKeyAtCapacity)
           => \E i \in 1..Len(A1.cache) :
                  /\ EvictedExactly(A1.cache[i].key)
                  /\ \A j \in 1..Len(A1.cache) :
                         A1.cache[i].accessCount <= A1.cache[j].accessCount]_vars

\* What holds of eviction all the same: from an adapter that holds no ""
\* key the victim is the policy's.
NoEmptyKey == "" \notin MapKeySet(A1.cache)

LruEvictsOldestUseWithoutEmptyKey ==
    [][(A1.strategy = "lru" /\ SetOfNewKeyAtCapacity /\ NoEmptyKey)
           => EvictedExactly(Head(recency[1]))]_vars

FifoEvictsOldestInsertionWithoutEmptyKey ==
    [][(A1.strategy = "fifo" /\ SetOfNewKeyAtCapacity /\ NoEmptyKey)
           => EvictedExactly(MapKeys(A1.cache)[1])]_vars

LfuEvictsLeastCountWithoutEmptyKey ==
    [][(A1.strategy = "lfu" /\ SetOfNewKeyAtCapacity /\ NoEmptyKey)
           => EvictedExactly(LfuVictim(A1.cache))]_vars

(***************************************************************************)
(* TtlSpec: one MemoryAdapter whose entries expire while Date.now() moves  *)
(* on, with and without a default ttl (and so with and without the sweep). *)
(***************************************************************************)
TtlKeys == {"", "a"}

TtlInit ==
    /\ \E ttl \in {0, 1}, strategy \in Strategies :
           adapters = <<MemoryAdapter(ttl, 0, strategy)>>
    /\ now = 1
    /\ last = Last("new", 1, "", undefined, <<>>, 0)
    /\ recency = <<<<>>>>
    /\ call = NoCall
    /\ inflight = <<<<>>>>

TtlNext ==
    \/ \E key \in TtlKeys, ttl \in {0, 1} : Set(1, key, "v1", ttl, {})
    \/ \E key \in TtlKeys : Get(1, key)
    \/ \E key \in TtlKeys : Delete(1, key)
    \/ \E key \in TtlKeys : Has(1, key)
    \/ Keys(1)
    \/ \E keyList \in {<<k>> : k \in TtlKeys} \cup {<<"a", "">>} : GetMany(1, keyList)
    \/ Sweep(1)
    \/ StopCleanup(1)
    \/ Tick

TtlSpec == TtlInit /\ [][TtlNext]_vars

\* The adapter holds key in an entry whose expiresAt the current time is past.
PastExpiry(key) ==
    /\ MapHas(A1.cache, key)
    /\ MapGet(A1.cache, key).expiresAt # 0
    /\ now > MapGet(A1.cache, key).expiresAt

Gone(key) ==
    ~MapHas(A1'.cache, key) /\ key \notin SeqToSet(A1'.accessOrder)

\* C5: once the current time is past an entry's expiresAt, a get of the key
\* returns undefined and a has returns false, each removing the entry from
\* the Map and from accessOrder; a getMany leaves the key out of its result
\* and removes it; and has is false of a key that is not held.  (A step that
\* leaves the time unchanged is a call of the adapter, recorded in last.)
C5_ExpiredNeverReturned ==
    [][now' = now =>
       /\ (last'.op = "get" /\ PastExpiry(last'.key))
            => (last'.ret = undefined /\ Gone(last'.key))
       /\ (last'.op = "has" /\ PastExpiry(last'.key))
            => (last'.ret = "false" /\ Gone(last'.key))
       /\ (last'.op = "has" /\ ~MapHas(A1.cache, last'.key))
            => last'.ret = "false"
       /\ last'.op = "getMany"
            => \A key \in TtlKeys :
                   PastExpiry(key)
                       => /\ \A n \in 1..Len(last'.list) : last'.list[n][1] # key
                          /\ (key \in last'.removed => Gone(key))]_vars

\* A get has just found its key expired and removed it.
C5_Witness ==
    /\ last.op = "get"
    /\ last.key \in last.removed
    /\ last.ret = undefined

(***************************************************************************)
(* The levels of a MultiLevelCache are CacheAdapters of any kind.  Beside  *)
(* the MemoryAdapter the model has the two other shapes the interface      *)
(* allows: "storage", whose calls return synchronously and whose writes    *)
(* may throw (SessionStorageAdapter.set), and "remote", whose calls return *)
(* promises and whose writes may be rejected (FileAdapter.set,             *)
(* RedisAdapter.set / delete).  Both are plain stores of items by key.  A  *)
(* remote write takes effect when its promise settles; the writes of one   *)
(* level settle in the order they were issued.                             *)
(***************************************************************************)
Kinds == {"memory", "storage", "remote"}

ExternalAdapter(kind) ==
    [kind |-> kind, ttl |-> 0, maxSize |-> Infinity, strategy |-> "none",
     cache |-> <<>>, accessOrder |-> <<>>, cleanupTimer |-> FALSE]

External_get(a, key, t) ==
    IF ~MapHas(a.cache, key) THEN [a |-> a, ret |-> undefined]
    ELSE IF IsExpired(MapGet(a.cache, key), t)
         THEN [a |-> [a EXCEPT !.cache = MapDelete(a.cache, key)], ret |-> undefined]
         ELSE [a |-> a, ret |-> MapGet(a.cache, key).value]

\* The item is stored as JSON.stringify writes it and read as JSON.parse reads
\* it; the values of the model are strings, which the two return unchanged.
External_set(a, key, value, ttl, t) ==
    [a EXCEPT !.cache = MapSet(a.cache,
                               CacheItem(key, value, ExpiresAt(a, ttl, t), t, 0, {}))]

External_delete(a, key) == [a EXCEPT !.cache = MapDelete(a.cache, key)]

\* adapter.get(key), adapter.set(key, value, ttl), adapter.delete(key)
Adapter_get(a, key, t) ==
    IF a.kind = "memory" THEN MemoryAdapter_get(a, key, t) ELSE External_get(a, key, t)

Adapter_set(a, key, value, ttl, t) ==
    IF a.kind = "memory" THEN MemoryAdapter_set(a, key, value, ttl, {}, t)
    ELSE External_set(a, key, value, ttl, t)

\* A delete that leaves the entry.
Adapter_delete_Keeps(a, key) == a

Adapter_delete(a, key) ==
    IF a.kind = "memory" THEN MemoryAdapter_delete(a, key) ELSE External_delete(a, key)

\* has(key) = true and get(key) = value, read off the adapter's store.
Holds(a, key, value) ==
    /\ MapHas(a.cache, key)
    /\ ~IsExpired(MapGet(a.cache, key), now)
    /\ MapGet(a.cache, key).value = value

Visible(a, key) == MapHas(a.cache, key) /\ ~IsExpired(MapGet(a.cache, key), now)

\* A write of the MultiLevelCache to one level: set (data is the one
\* entry), setMany or delete.  failAt = 0 when it succeeds; otherwise the
\* entry at which it fails, the entries before it being written.  awaited:
\* the call in progress waits for its promise.
Write(op, key, data, ttl, awaited) ==
    [op |-> op, key |-> key, data |-> data, ttl |-> ttl, failAt |-> 0,
     awaited |-> awaited]

RECURSIVE ApplyEntries(_, _, _, _)
ApplyEntries(a, data, ttl, t) ==
    IF data = <<>> THEN a
    ELSE ApplyEntries(Adapter_set(a, Head(data)[1], Head(data)[2], ttl, t),
                      Tail(data), ttl, t)

\* A write that takes effect although it fails.
ApplyWrite_Stores(a, w, t) ==
    IF w.op = "delete" THEN Adapter_delete(a, w.key)
    ELSE ApplyEntries(a, w.data, w.ttl, t)

ApplyWrite(a, w, t) ==
    IF w.op = "delete"
    THEN IF w.failAt = 0 THEN Adapter_delete(a, w.key) ELSE a
    ELSE ApplyEntries(a, IF w.failAt = 0 THEN w.data
                         ELSE SubSeq(w.data, 1, w.failAt - 1), w.ttl, t)

\* The progress of a call of the MultiLevelCache: the levels, the writes in
\* flight, the adapter calls made so far, the level whose call threw (0:
\* none), the value found by a get, the level a get awaits (0: none).
Progress(log) ==
    [adapters |-> adapters, inflight |-> inflight, log |-> log, thrown |-> 0,
     ret |-> undefined, suspended |-> 0]

RECURSIVE FanOut(_, _, _, _, _, _)
\* A fan-out that reaches level 0 only.
FanOut_FirstLevel(st, w, i, upto, failing, failAt) ==
    IF i > upto \/ i > 1 THEN st
    ELSE [st EXCEPT !.adapters[i] = ApplyWrite(st.adapters[i], w, now),
                    !.log = Append(@, <<i, w.op, w.key>>)]

\* The write w made on the levels i..upto in turn: applied at once on a
\* level that returns synchronously, unless it throws, which ends the loop;
\* in flight on a remote level.
FanOut(st, w, i, upto, failing, failAt) ==
    IF i > upto THEN st
    ELSE LET a == st.adapters[i]
             wi == [w EXCEPT !.failAt = IF i \in failing /\ a.kind # "memory"
                                        THEN failAt ELSE 0]
             logged == [st EXCEPT !.log = Append(@, <<i, w.op, w.key>>)]
         IN IF a.kind = "remote"
            THEN FanOut([logged EXCEPT !.inflight[i] = Append(@, wi)],
                        w, i + 1, upto, failing, failAt)
            ELSE LET applied == [logged EXCEPT !.adapters[i] = ApplyWrite(a, wi, now)]
                 IN IF wi.failAt # 0 THEN [applied EXCEPT !.thrown = i]
                    ELSE FanOut(applied, w, i + 1, upto, failing, failAt)

\* A backfill of the level next to the hit only.
Backfill_Nearest(st, key, result, i, failing) ==
    FanOut(st, Write("set", key, <<<<key, result>>>>, 0, FALSE),
           IF i > 1 THEN i - 1 ELSE 1, i - 1, failing, 1)

\* A backfill that passes a ttl.
Backfill_WithTtl(st, key, result, i, failing) ==
    FanOut(st, Write("set", key, <<<<key, result>>>>, 1, FALSE), 1, i - 1, failing, 1)

\* The backfill loop of get: upperAdapter.set(key, result) for j < i, with
\* no ttl, awaited by nobody.
Backfill(st, key, result, i, failing) ==
    FanOut(st, Write("set", key, <<<<key, result>>>>, 0, FALSE), 1, i - 1, failing, 1)

RECURSIVE RunGet(_, _, _, _, _)
\* A loop that goes on to the levels below a hit.
RunGet_Through(st, key, i, resumed, failing) ==
    IF i > Len(st.adapters) THEN st
    ELSE IF st.adapters[i].kind = "remote" /\ ~resumed
    THEN [st EXCEPT !.suspended = i]
    ELSE LET g == Adapter_get(st.adapters[i], key, now)
             read == [st EXCEPT !.adapters[i] = g.a, !.log = Append(@, <<i, "get", key>>)]
         IN IF g.ret # undefined
            THEN [RunGet(Backfill(read, key, g.ret, i, failing), key, i + 1, FALSE, failing)
                     EXCEPT !.ret = g.ret]
            ELSE RunGet(read, key, i + 1, FALSE, failing)

\* A get that sets the key to undefined on every level when no level has it.
RunGet_CachesMiss(st, key, i, resumed, failing) ==
    IF i > Len(st.adapters) THEN Backfill(st, key, undefined, i, failing)
    ELSE IF st.adapters[i].kind = "remote" /\ ~resumed
    THEN [st EXCEPT !.suspended = i]
    ELSE LET g == Adapter_get(st.adapters[i], key, now)
             read == [st EXCEPT !.adapters[i] = g.a, !.log = Append(@, <<i, "get", key>>)]
         IN IF g.ret # undefined
            THEN [Backfill(read, key, g.ret, i, failing) EXCEPT !.ret = g.ret]
            ELSE RunGet(read, key, i + 1, FALSE, failing)

\* The loop of get from level i on.  A remote level's get is awaited: the
\* loop is suspended there and resumed with what the level returns.
RunGet(st, key, i, resumed, failing) ==
    IF i > Len(st.adapters) THEN st
    ELSE IF st.adapters[i].kind = "remote" /\ ~resumed
    THEN [st EXCEPT !.suspended = i]
    ELSE LET g == Adapter_get(st.adapters[i], key, now)
             read == [st EXCEPT !.adapters[i] = g.a, !.log = Append(@, <<i, "get", key>>)]
         IN IF g.ret # undefined
            THEN [Backfill(read, key, g.ret, i, failing) EXCEPT !.ret = g.ret]
            ELSE RunGet(read, key, i + 1, FALSE, failing)

\* The promises nobody waits for any more.
Orphaned(inf) ==
    [i \in DOMAIN inf |->
        [n \in 1..Len(inf[i]) |-> [inf[i][n] EXCEPT !.awaited = FALSE]]]

Awaited(inf) ==
    {i \in DOMAIN inf : \E n \in 1..Len(inf[i]) : inf[i][n].awaited}

\* A join that swallows the rejections.
Rejects_Never(w) == FALSE

\* await Promise.all(promises) is rejected by the first rejected promise.
Rejects(w) == w.awaited /\ w.failAt # 0

\* The name of the call of the MultiLevelCache that makes the write w.
MLOp(w) ==
    IF w.op = "set" THEN "ML.set"
    ELSE IF w.op = "delete" THEN "ML.delete" ELSE "ML.setMany"

MLLast(op, key, value, ret, log, failed) ==
    [Last(op, 0, key, ret, log, 0) EXCEPT !.value = value, !.failed = failed]

Calling(op, key, w, i, log) ==
    [op |-> op, key |-> key, w |-> w, i |-> i, log |-> log, failed |-> {}]

\* The levels on which `log` holds a call of one of `ops`.
LevelsOf(log, ops) == {log[n][1] : n \in {m \in 1..Len(log) : log[m][2] \in ops}}

\* The last level `log` holds a get of: the level of the hit of a get that
\* found a value.
HitLevel(log) ==
    CHOOSE i \in LevelsOf(log, {"get"}) : \A j \in LevelsOf(log, {"get"}) : j <= i

MLRecency(ads2, touched, keyList) ==
    [i \in DOMAIN ads2 |->
        Recency(recency[i], IF i \in touched THEN keyList ELSE <<>>, ads2[i].cache)]

Room == \A i \in Levels : adapters[i].kind = "remote" => Len(inflight[i]) < MaxInflight

\* The calls of a MemoryAdapter do not fail; of the other levels one at most
\* fails in a call of the MultiLevelCache.
MayFail == {{}} \cup {{i} : i \in {j \in Levels : adapters[j].kind # "memory"}}

RECURSIVE SumCounts(_)
SumCounts(cache) ==
    IF cache = <<>> THEN 0 ELSE Head(cache).accessCount + SumCounts(Tail(cache))

RECURSIVE Hits(_)
Hits(ads) == IF ads = <<>> THEN 0 ELSE SumCounts(Head(ads).cache) + Hits(Tail(ads))

\* The access counts of the entries add up to MaxHits at most.
CanHit(key) == Hits(adapters) < MaxHits

\* The state a get leaves: suspended at a remote level, or returned.
GetOutcome(st, key) ==
    /\ adapters' = st.adapters
    /\ inflight' = st.inflight
    /\ recency' = MLRecency(st.adapters,
                            IF st.ret = undefined THEN {}
                            ELSE {i \in LevelsOf(st.log, {"get", "set"}) :
                                     st.adapters[i].kind # "remote" /\ i <= HitLevel(st.log)},
                            <<key>>)
    /\ IF st.suspended # 0
       THEN /\ call' = Calling("get", key, Write("get", key, <<>>, 0, FALSE),
                               st.suspended, st.log)
            /\ last' = last
       ELSE /\ call' = NoCall
            /\ last' = MLLast("ML.get", key, <<>>,
                              IF st.thrown # 0 THEN "error" ELSE st.ret, st.log,
                              IF st.thrown # 0 THEN {st.thrown} ELSE {})
    /\ UNCHANGED now

\* MultiLevelCache.get(key)
MLGet(key, failing) ==
    /\ call = NoCall
    /\ Room
    /\ CanHit(key)
    /\ \E st \in {RunGet(Progress(<<>>), key, 1, FALSE, failing)} : GetOutcome(st, key)

\* The awaited get of a remote level returns.
MLGetResume(failing) ==
    /\ call.op = "get"
    /\ CanHit(call.key)
    /\ \E st \in {RunGet(Progress(call.log), call.key, call.i, TRUE, failing)} :
           GetOutcome(st, call.key)

\* The synchronous part of set, delete and setMany: adapters.map(...), then
\* the await of Promise.all.
MLWrite(w, failing, failAt) ==
    /\ call = NoCall
    /\ Room
    /\ \E st \in {FanOut(Progress(<<>>), w, 1, Len(adapters), failing, failAt)} :
          /\ adapters' = st.adapters
          /\ recency' = MLRecency(st.adapters,
                                  {i \in LevelsOf(st.log, {"set", "setMany"}) :
                                      st.adapters[i].kind # "remote"},
                                  [n \in 1..Len(w.data) |-> w.data[n][1]])
          /\ IF st.thrown # 0
             THEN /\ inflight' = Orphaned(st.inflight)
                  /\ call' = NoCall
                  /\ last' = MLLast(MLOp(w), w.key, w.data, "error", st.log, {st.thrown})
             ELSE /\ inflight' = st.inflight
                  /\ call' = Calling(MLOp(w), w.key, w, 0, st.log)
                  /\ last' = last
          /\ UNCHANGED now

\* MultiLevelCache.set(key, value, ttl)
MLSet(key, value, ttl, failing) ==
    MLWrite(Write("set", key, <<<<key, value>>>>, ttl, TRUE), failing, 1)

\* MultiLevelCache.delete(key)
MLDelete(key, failing) ==
    MLWrite(Write("delete", key, <<>>, 0, TRUE), failing, 1)

\* MultiLevelCache.setMany(data, ttl)
MLSetMany(data, ttl, failing, failAt) ==
    MLWrite(Write("setMany", "", data, ttl, TRUE), failing, failAt)

\* The promise of the oldest write in flight on level i settles.
Settle(i) ==
    /\ inflight[i] # <<>>
    /\ \E w \in {Head(inflight[i])}, rest \in {[inflight EXCEPT ![i] = Tail(@)]},
          a2 \in {ApplyWrite(adapters[i], Head(inflight[i]), now)} :
          /\ adapters' = [adapters EXCEPT ![i] = a2]
          /\ recency' = [recency EXCEPT ![i] =
                            Recency(@, IF w.failAt = 0
                                       THEN [n \in 1..Len(w.data) |-> w.data[n][1]]
                                       ELSE <<>>, a2.cache)]
          /\ IF Rejects(w)
             THEN /\ inflight' = Orphaned(rest)
                  /\ call' = NoCall
                  /\ last' = MLLast(call.op, call.key, call.w.data, "error", call.log,
                                    call.failed \cup {i})
             ELSE /\ inflight' = rest
                  /\ call' = IF w.awaited /\ w.failAt # 0
                             THEN [call EXCEPT !.failed = @ \cup {i}]
                             ELSE call
                  /\ last' = last
          /\ UNCHANGED now

\* Promise.all is fulfilled: set, delete or setMany returns.
MLReturn ==
    /\ call.op \in {"ML.set", "ML.delete", "ML.setMany"}
    /\ Awaited(inflight) = {}
    /\ last' = MLLast(call.op, call.key, call.w.data, "ok", call.log, call.failed)
    /\ call' = NoCall
    /\ UNCHANGED <<adapters, now, recency, inflight>>

(***************************************************************************)
(* MLSpec: a MultiLevelCache of one to MaxLevels levels of every kind,     *)
(* called by one caller at a time, who also writes to the memory levels    *)
(* directly.  A memory level at index 0 holds one entry at most, the other  *)
(* levels are unbounded.                                                   *)
(***************************************************************************)
MLKeys == {"", "a"}

MLEntries == {<<"a", "v1">>, <<"a", "v2">>, <<"", "v1">>}

MLData == {<<<<"a", "v1">>, <<"", "v1">>>>}

\* The kinds of n levels, MaxExternal of them at most other than memory.
LevelKinds(n) ==
    {kinds \in [1..n -> Kinds] :
        Cardinality({i \in 1..n : kinds[i] # "memory"}) <= MaxExternal}

MLInit ==
    /\ \E n \in 1..MaxLevels : \E kinds \in LevelKinds(n) :
           adapters = [i \in 1..n |->
                          IF kinds[i] = "memory"
                          THEN MemoryAdapter(0, IF i = 1 THEN 1 ELSE 0, "lru")
                          ELSE ExternalAdapter(kinds[i])]
    /\ now = 1
    /\ last = Last("new", 0, "", undefined, <<>>, 0)
    /\ recency = [i \in DOMAIN adapters |-> <<>>]
    /\ call = NoCall
    /\ inflight = [i \in DOMAIN adapters |-> <<>>]

MLNext ==
    \/ \E i \in Levels, e \in MLEntries : Set(i, e[1], e[2], 0, {})
    \/ \E key \in MLKeys, failing \in MayFail : MLGet(key, failing)
    \/ \E failing \in MayFail : MLGetResume(failing)
    \/ \E e \in MLEntries, failing \in MayFail : MLSet(e[1], e[2], 0, failing)
    \/ \E key \in MLKeys, failing \in MayFail : MLDelete(key, failing)
    \/ \E data \in MLData, failing \in MayFail, failAt \in 1..2 :
           MLSetMany(data, 0, failing, failAt)
    \/ \E i \in Levels : Settle(i)
    \/ MLReturn

MLSpec == MLInit /\ [][MLNext]_vars

(***************************************************************************)
(* The claims about the MultiLevelCache, checked under MLSpec.             *)
(***************************************************************************)
AllMemory == \A i \in Levels : adapters[i].kind = "memory"

MLWrites == {"ML.set", "ML.delete", "ML.setMany"}

\* A step in which get returns to its caller, from its first part or from
\* the part that follows an awaited level.
GetReturns ==
    /\ call.op \in {"none", "get"}
    /\ call' = NoCall
    /\ last'.op = "ML.get"
    /\ \A i \in Levels : Len(inflight'[i]) >= Len(inflight[i])

\* The levels get reads in the step in which it returns.
ReadNow == {i \in Levels : i >= (IF call.op = "get" THEN call.i ELSE 1)}

\* The levels of the calls of `method` in `log`, in the order of the calls.
RECURSIVE CallsOf(_, _)
CallsOf(log, method) ==
    IF log = <<>> THEN <<>>
    ELSE IF Head(log)[2] = method THEN <<Head(log)[1]>> \o CallsOf(Tail(log), method)
    ELSE CallsOf(Tail(log), method)

\* C6: MultiLevelCache.get(k) reads the levels in the order of their index
\* from level 0 on, stops at the first level that returns a defined value and
\* returns that value, whatever the levels below it hold; it neither reads nor
\* writes a level below the hit; when no level returns a value it has read
\* them all and returns undefined.
C6_GetReturnsFirstHit ==
    [][GetReturns /\ last'.ret # "error" =>
         LET k == last'.key
             reads == CallsOf(last'.list, "get")
             h == Len(reads)
         IN /\ h >= 1
            /\ reads = [j \in 1..h |-> j]
            /\ \A j \in ReadNow : j < h => ~Visible(adapters[j], k)
            /\ IF last'.ret = undefined
               THEN /\ h = Len(adapters)
                    /\ h \in ReadNow => ~Visible(adapters[h], k)
               ELSE /\ h \in ReadNow
                    /\ Holds(adapters[h], k, last'.ret)
                    /\ \A j \in Levels : j > h =>
                          /\ adapters'[j] = adapters[j]
                          /\ inflight'[j] = inflight[j]
                          /\ j \notin LevelsOf(last'.list, {"get", "set"})]_vars

\* get returned the value of a level while a level below it holds another
\* value for the key.
C6_Witness ==
    /\ last.op = "ML.get"
    /\ last.ret \in AllValues
    /\ \E j \in Levels :
          /\ j > HitLevel(last.list)
          /\ Visible(adapters[j], last.key)
          /\ MapGet(adapters[j].cache, last.key).value # last.ret

\* C7: when all levels are MemoryAdapters and MultiLevelCache.get(k) has
\* returned the value found at level i, then until the caller's next call
\* every level j <= i holds k with the returned value.
C7_BackfillReachesEveryLevelAbove ==
    (call = NoCall /\ last.op = "ML.get" /\ last.ret \notin {undefined, "error"} /\ AllMemory)
        => \A j \in Levels : j <= HitLevel(last.list) => Holds(adapters[j], last.key, last.ret)

\* get found the key at the third of three MemoryAdapters and wrote it to the
\* two above.
C7_Witness ==
    /\ last.op = "ML.get"
    /\ AllMemory
    /\ last.ret \in AllValues
    /\ HitLevel(last.list) = 3
    /\ CallsOf(last.list, "set") = <<1, 2>>
    /\ \A j \in 1..3 : Holds(adapters[j], last.key, last.ret)

\* C8: after MultiLevelCache.set(k, v) has returned without error, and until
\* the caller's next call, every level holds k, unexpired, with the value v.
C8_SetReachesEveryLevel ==
    (call = NoCall /\ last.op = "ML.set" /\ last.ret = "ok")
        => \A i \in Levels : Holds(adapters[i], last.key, last.value[1][2])

\* set returned without error on three levels, one of which completed its
\* write asynchronously.
C8_Witness ==
    /\ last.op = "ML.set"
    /\ last.ret = "ok"
    /\ Len(adapters) = 3
    /\ \E i \in Levels : adapters[i].kind = "remote"
    /\ \A i \in Levels : Holds(adapters[i], last.key, last.value[1][2])

\* C9: when MultiLevelCache.delete(k) returns without error no level holds
\* k, and a MultiLevelCache.get(k) that follows returns undefined.
C9_DeleteReachesEveryLevel ==
    [][/\ (call.op = "ML.delete" /\ call' = NoCall /\ last'.ret = "ok")
            => \A i \in Levels : ~MapHas(adapters'[i].cache, last'.key)
       /\ (last.op = "ML.delete" /\ last.ret = "ok" /\ GetReturns /\ last'.key = last.key)
            => last'.ret = undefined]_vars

\* delete returned without error on more than one level, one of which
\* completed its delete asynchronously.
C9_Witness ==
    /\ last.op = "ML.delete"
    /\ last.ret = "ok"
    /\ Len(adapters) > 1
    /\ \E i \in Levels : adapters[i].kind = "remote"
    /\ \A i \in Levels : ~MapHas(adapters[i].cache, last.key)

\* C10: a set, delete or setMany of the MultiLevelCache that returns without
\* error had no level whose write failed: a level's rejected promise or
\* synchronous throw makes the call fail.
C10_LevelFailureFailsTheCall ==
    (last.op \in MLWrites /\ last.ret = "ok") => last.failed = {}

\* A call failed because the write of one of its levels failed.
C10_Witness ==
    /\ last.op \in MLWrites
    /\ last.ret = "error"
    /\ last.failed # {}

(***************************************************************************)
(* JoinSpec: a MultiLevelCache of JoinLevels levels of any kinds, so that  *)
(* the writes of one call can be in flight on several levels at once.      *)
(***************************************************************************)
JoinInit ==
    /\ \E kinds \in [1..JoinLevels -> Kinds] :
           adapters = [i \in 1..JoinLevels |->
                          IF kinds[i] = "memory"
                          THEN MemoryAdapter(0, IF i = 1 THEN 1 ELSE 0, "lru")
                          ELSE ExternalAdapter(kinds[i])]
    /\ now = 1
    /\ last = Last("new", 0, "", undefined, <<>>, 0)
    /\ recency = [i \in DOMAIN adapters |-> <<>>]
    /\ call = NoCall
    /\ inflight = [i \in DOMAIN adapters |-> <<>>]

JoinSpec == JoinInit /\ [][MLNext]_vars

\* A step in which set, delete or setMany fails because a level's promise is
\* rejected.
WriteRejected ==
    /\ call.op \in MLWrites
    /\ call' = NoCall
    /\ last'.ret = "error"

\* A step in which set, delete or setMany fails because a level's call
\* throws.
WriteThrown ==
    /\ call = NoCall
    /\ call' = NoCall
    /\ last'.op \in MLWrites
    /\ last'.ret = "error"
    /\ \A i \in Levels : Len(inflight'[i]) >= Len(inflight[i])

\* C11: when set, delete or setMany returns or fails, none of the writes it
\* made on the levels is still in flight: a call that a rejected promise
\* ends had no other promise pending, and a call that a throw ends has left
\* no promise behind.
C11_NoWriteInFlightAtReturn ==
    [][/\ WriteRejected => Cardinality(Awaited(inflight)) <= 1
       /\ WriteThrown => inflight' = inflight]_vars

(***************************************************************************)
(* TagSpec: one MemoryAdapter without ttl and without a bound on its size, *)
(* whose entries are set with any tags and deleted by key or by tags.      *)
(***************************************************************************)
TagInit ==
    /\ \E strategy \in Strategies : adapters = <<MemoryAdapter(0, 0, strategy)>>
    /\ now = 1
    /\ last = Last("new", 1, "", undefined, <<>>, 0)
    /\ recency = <<<<>>>>
    /\ call = NoCall
    /\ inflight = <<<<>>>>

TagNext ==
    \/ \E key \in AllKeys, tags \in SUBSET AllTags : Set(1, key, "v1", 0, tags)
    \/ \E key \in AllKeys : Delete(1, key)
    \/ \E tags \in SUBSET AllTags : DeleteByTags(1, tags)

TagSpec == TagInit /\ [][TagNext]_vars

\* The held keys whose entry has one of `tags` at least.
Tagged(tags) == {k \in MapKeySet(A1.cache) : MapGet(A1.cache, k).tags \cap tags # {}}

\* C12: deleteByTags(T) removes from the Map and from accessOrder exactly the
\* held keys whose tags share a tag with T, leaves the other entries as they
\* are and in their order, and returns the number of keys removed; with T
\* empty it changes nothing and returns 0.
C12_DeleteByTagsRemovesTheTagged ==
    [][\A tags \in SUBSET AllTags :
          DeleteByTags(1, tags) =>
             /\ MapKeySet(A1'.cache) = MapKeySet(A1.cache) \ Tagged(tags)
             /\ A1'.cache = SelectSeq(A1.cache, LAMBDA item : item.key \notin Tagged(tags))
             /\ A1'.accessOrder = SelectSeq(A1.accessOrder, LAMBDA k : k \notin Tagged(tags))
             /\ last'.n = Cardinality(Tagged(tags))
             /\ tags = {} => (A1' = A1 /\ last'.n = 0)]_vars

\* deleteByTags has removed two entries and left the untagged one.
C12_Witness ==
    /\ last.op = "deleteByTags"
    /\ last.n = 2
    /\ Cardinality(last.removed) = 2
    /\ Len(A1.cache) = 1
    /\ A1.cache[1].tags = {}

(***************************************************************************)
(* TagLevelsSpec: a MultiLevelCache over MemoryAdapters whose set takes    *)
(* tags and which has a deleteByTags.  The two methods are described by    *)
(* the specification (4.2: set(key, value, ttl?, tags?) writes to every    *)
(* level; deleteByTags fans out to every level and sums the counts) and    *)
(* used by tests/multi-level-cache.test.ts; their code is not part of      *)
(* src/src/mod.ts, whose set passes key, value and ttl only.               *)
(***************************************************************************)
RECURSIVE SetTaggedAll(_, _, _, _, _)
SetTaggedAll(ads, key, value, tags, i) ==
    IF i > Len(ads) THEN ads
    ELSE SetTaggedAll([ads EXCEPT ![i] = MemoryAdapter_set(ads[i], key, value, 0, tags, now)],
                      key, value, tags, i + 1)

\* A fan-out of deleteByTags that stops after level 0.
DeleteByTagsAll_FirstLevel(ads, tags, i) ==
    LET r == MemoryAdapter_deleteByTags(ads[1], tags)
    IN [adapters |-> [ads EXCEPT ![1] = r.a], n |-> r.ret]

RECURSIVE DeleteByTagsAll(_, _, _)
DeleteByTagsAll(ads, tags, i) ==
    IF i > Len(ads) THEN [adapters |-> ads, n |-> 0]
    ELSE LET r == MemoryAdapter_deleteByTags(ads[i], tags)
             rest == DeleteByTagsAll([ads EXCEPT ![i] = r.a], tags, i + 1)
         IN [rest EXCEPT !.n = @ + r.ret]

\* MultiLevelCache.set(key, value, undefined, tags) over MemoryAdapters.
MLSetTagged(key, value, tags) ==
    /\ call = NoCall
    /\ adapters' = SetTaggedAll(adapters, key, value, tags, 1)
    /\ recency' = MLRecency(adapters', Levels, <<key>>)
    /\ last' = MLLast("ML.set", key, <<<<key, value>>>>, "ok", <<>>, {})
    /\ UNCHANGED <<now, call, inflight>>

\* MultiLevelCache.deleteByTags(tags) over MemoryAdapters.
MLDeleteByTags(tags) ==
    /\ call = NoCall
    /\ \E r \in {DeleteByTagsAll(adapters, tags, 1)} :
          /\ adapters' = r.adapters
          /\ recency' = MLRecency(r.adapters, {}, <<>>)
          /\ last' = [MLLast("ML.deleteByTags", "", <<>>, "ok", <<>>, {}) EXCEPT !.n = r.n]
    /\ UNCHANGED <<now, call, inflight>>

TagLevelsInit ==
    /\ \E n \in 1..JoinLevels :
           adapters = [i \in 1..n |-> MemoryAdapter(0, IF i = 1 THEN 1 ELSE 0, "lru")]
    /\ now = 1
    /\ last = Last("new", 0, "", undefined, <<>>, 0)
    /\ recency = [i \in DOMAIN adapters |-> <<>>]
    /\ call = NoCall
    /\ inflight = [i \in DOMAIN adapters |-> <<>>]

TagLevelsNext ==
    \/ \E i \in Levels, key \in MLKeys, tags \in SUBSET AllTags : Set(i, key, "v1", 0, tags)
    \/ \E key \in MLKeys, tags \in SUBSET AllTags : MLSetTagged(key, "v1", tags)
    \/ \E key \in MLKeys : MLGet(key, {})
    \/ \E tags \in SUBSET AllTags : MLDeleteByTags(tags)

TagLevelsSpec == TagLevelsInit /\ [][TagLevelsNext]_vars

\* The keys level i holds with one of `tags` at least.
TaggedAt(i, tags) ==
    {k \in MapKeySet(adapters[i].cache) : MapGet(adapters[i].cache, k).tags \cap tags # {}}

RECURSIVE TaggedCount(_, _)
TaggedCount(i, tags) ==
    IF i > Len(adapters) THEN 0 ELSE Cardinality(TaggedAt(i, tags)) + TaggedCount(i + 1, tags)

\* C13: MultiLevelCache.deleteByTags(T) removes from every level the entries
\* with a tag of T, and so every entry that set wrote there with such a tag,
\* leaves the other entries of every level in place, and returns the sum
\* over the levels of the numbers of entries removed.
C13_DeleteByTagsReachesEveryLevel ==
    [][\A tags \in SUBSET AllTags :
          MLDeleteByTags(tags) =>
             /\ \A i \in Levels :
                   adapters'[i].cache =
                       SelectSeq(adapters[i].cache, LAMBDA item : item.tags \cap tags = {})
             /\ last'.n = TaggedCount(1, tags)]_vars

\* deleteByTags returned 2, having removed an entry with a matching tag from
\* each of two levels, and left an entry with another tag.
C13_Witness ==
    /\ last.op = "ML.deleteByTags"
    /\ last.n = 2
    /\ Len(adapters) = 2
    /\ Len(adapters[1].cache) = 0
    /\ Len(adapters[2].cache) = 1
    /\ adapters[2].cache[1].tags # {}

(***************************************************************************)
(* NewSpec: the construction of a MultiLevelCache from a list of adapters, *)
(* followed by its calls.  adapters = <<>> while no MultiLevelCache has    *)
(* been constructed.                                                       *)
(***************************************************************************)
\* A constructor without the check of the number of adapters.
MultiLevelCache_new_Unchecked(levelList) ==
    /\ adapters = <<>>
    /\ adapters' = levelList
    /\ recency' = [i \in DOMAIN levelList |-> <<>>]
    /\ inflight' = [i \in DOMAIN levelList |-> <<>>]
    /\ last' = MLLast("ML.new", "", <<>>, "ok", <<>>, {})
    /\ UNCHANGED <<now, call>>

\* new MultiLevelCache(...adapters)
MultiLevelCache_new(levelList) ==
    /\ adapters = <<>>
    /\ IF Len(levelList) = 0
       THEN /\ last' = MLLast("ML.new", "", <<>>, "error", <<>>, {})
            /\ UNCHANGED <<adapters, recency, inflight>>
       ELSE /\ adapters' = levelList
            /\ recency' = [i \in DOMAIN levelList |-> <<>>]
            /\ inflight' = [i \in DOMAIN levelList |-> <<>>]
            /\ last' = MLLast("ML.new", "", <<>>, "ok", <<>>, {})
    /\ UNCHANGED <<now, call>>

\* The lists of adapters given to the constructor: none, or up to JoinLevels.
LevelLists ==
    {<<>>} \cup
    UNION {{[i \in 1..n |-> IF kinds[i] = "memory"
                            THEN MemoryAdapter(0, IF i = 1 THEN 1 ELSE 0, "lru")
                            ELSE ExternalAdapter(kinds[i])] : kinds \in LevelKinds(n)}
              : n \in 1..JoinLevels}

NewInit ==
    /\ adapters = <<>>
    /\ now = 1
    /\ last = Last("none", 0, "", undefined, <<>>, 0)
    /\ recency = <<>>
    /\ call = NoCall
    /\ inflight = <<>>

NewNext ==
    \/ \E levelList \in LevelLists : MultiLevelCache_new(levelList)
    \/ adapters # <<>> /\ MLNext

NewSpec == NewInit /\ [][NewNext]_vars

\* C14: the construction of a MultiLevelCache from no adapter throws and
\* leaves no MultiLevelCache, so that no call can follow it; from one adapter
\* or more it succeeds, and from then on the list of levels keeps its length
\* and the kind of adapter at each index.
C14_ConstructionGuard ==
    [][/\ adapters = <<>> =>
             /\ last'.op = "ML.new"
             /\ adapters' = <<>> <=> last'.ret = "error"
             /\ adapters' # <<>> <=> last'.ret = "ok"
       /\ adapters # <<>> =>
             /\ Len(adapters') = Len(adapters)
             /\ \A i \in Levels : adapters'[i].kind = adapters[i].kind]_vars

\* A construction from no adapter has thrown.
C14_Witness ==
    /\ last.op = "ML.new"
    /\ last.ret = "error"
    /\ adapters = <<>>

(***************************************************************************)
(* GetManySpec: MultiLevelCache.getMany over MemoryAdapters.  The result   *)
(* of getMany is a JavaScript object, here the sequence of its own         *)
(* properties <<key, value>> in the order of their insertion; the `in`     *)
(* operator is true of the own properties and of the properties inherited  *)
(* from Object.prototype, of which "constructor" is one.                   *)
(***************************************************************************)
ObjectPrototypeKeys == {"constructor"}

\* key in result
In(key, result) ==
    key \in ObjectPrototypeKeys \/ \E n \in 1..Len(result) : result[n][1] = key

RECURSIVE Merge(_, _, _)
\* The loop over Object.entries(adapterResult) at level i: a key that is not
\* in the result yet is added to it and set on the levels above i.
Merge(st, entries, i) ==
    IF entries = <<>> THEN st
    ELSE LET key == Head(entries)[1]
             value == Head(entries)[2]
         IN IF In(key, st.ret) THEN Merge(st, Tail(entries), i)
            ELSE Merge([Backfill(st, key, value, i, {}) EXCEPT
                           !.ret = Append(@, <<key, value>>)],
                       Tail(entries), i)

RECURSIVE RunGetMany(_, _, _)
\* The loop of getMany over the levels from level i on.
RunGetMany(st, keyList, i) ==
    IF i > Len(st.adapters) THEN st
    ELSE LET r == MemoryAdapter_getMany(st.adapters[i], keyList, now)
             m == Merge([st EXCEPT !.adapters[i] = r.a,
                                   !.log = Append(@, <<i, "getMany", "">>)], r.ret, i)
         IN IF Len(m.ret) = Len(keyList) THEN m ELSE RunGetMany(m, keyList, i + 1)

\* MultiLevelCache.getMany(keys) over MemoryAdapters: last.list is the
\* result, last.value the calls made on the levels.
MLGetMany(keyList) ==
    /\ call = NoCall
    /\ CanHit("")
    /\ \E st \in {RunGetMany([Progress(<<>>) EXCEPT !.ret = <<>>], keyList, 1)} :
          /\ adapters' = st.adapters
          /\ recency' = MLRecency(st.adapters, {}, <<>>)
          /\ last' = [MLLast("ML.getMany", "", st.log, "ok", st.ret, {})
                         EXCEPT !.n = Len(keyList)]
    /\ UNCHANGED <<now, call, inflight>>

GetManyKeys == {"a", "constructor"}

GetManyEntries == {<<"a", "v1">>, <<"a", "v2">>, <<"constructor", "v1">>}

GetManyKeyLists == {<<k>> : k \in GetManyKeys} \cup {<<"a", "constructor">>}

GetManyInit ==
    /\ \E n \in 1..MaxLevels :
           adapters = [i \in 1..n |-> MemoryAdapter(0, IF i = 1 THEN 1 ELSE 0, "lru")]
    /\ now = 1
    /\ last = Last("new", 0, "", undefined, <<>>, 0)
    /\ recency = [i \in DOMAIN adapters |-> <<>>]
    /\ call = NoCall
    /\ inflight = [i \in DOMAIN adapters |-> <<>>]

GetManyNext ==
    \/ \E i \in Levels, e \in GetManyEntries : Set(i, e[1], e[2], 0, {})
    \/ \E keyList \in GetManyKeyLists : MLGetMany(keyList)

GetManySpec == GetManyInit /\ [][GetManyNext]_vars

\* The levels that hold key with a value a read returns.
HoldingLevels(key) == {i \in Levels : Visible(adapters[i], key)}

\* The lowest level that holds key (0: none).
FirstHolding(key) ==
    IF HoldingLevels(key) = {} THEN 0
    ELSE CHOOSE i \in HoldingLevels(key) : \A j \in HoldingLevels(key) : i <= j

\* The value a read of key at level i returns.
ValueAt(i, key) == MemoryAdapter_get(adapters[i], key, now).ret

\* C15: MultiLevelCache.getMany(keys) returns, for each requested key held by
\* at least one level, the value of the lowest level holding it; it omits
\* the keys held by no level; and it sets each key first found below the
\* first level on every level above the one where it was found.
C15_GetManyReturnsFirstHits ==
    [][\A keyList \in GetManyKeyLists :
          MLGetMany(keyList) =>
              \A n \in 1..Len(keyList) :
                  LET key == keyList[n]
                      i == FirstHolding(key)
                  IN IF i = 0
                     THEN \A m \in 1..Len(last'.list) : last'.list[m][1] # key
                     ELSE /\ \E m \in 1..Len(last'.list) :
                                 last'.list[m] = <<key, ValueAt(i, key)>>
                          /\ \A m, m2 \in 1..Len(last'.list) :
                                 last'.list[m][1] = last'.list[m2][1] => m = m2
                          /\ \A j \in 1..(i - 1) :
                                 \E m \in 1..Len(last'.value) :
                                     last'.value[m] = <<j, "set", key>>]_vars

\* C15 for the keys that are not names of Object.prototype.
C15_GetManyOwnKeys ==
    [][\A keyList \in GetManyKeyLists :
          MLGetMany(keyList) =>
              \A n \in 1..Len(keyList) :
                  LET key == keyList[n]
                      i == FirstHolding(key)
                  IN key \notin ObjectPrototypeKeys =>
                     IF i = 0
                     THEN \A m \in 1..Len(last'.list) : last'.list[m][1] # key
                     ELSE /\ \E m \in 1..Len(last'.list) :
                                 last'.list[m] = <<key, ValueAt(i, key)>>
                          /\ \A j \in 1..(i - 1) :
                                 /\ \E m \in 1..Len(last'.value) :
                                        last'.value[m] = <<j, "set", key>>
                                 /\ j > 1 => Holds(adapters'[j], key, ValueAt(i, key))]_vars

\* A getMany found "a" at the third level only and returned it.
C15_OwnKeysWitness ==
    /\ last.op = "ML.getMany"
    /\ last.list = <<<<"a", "v1">>>>
    /\ CallsOf(last.value, "set") = <<1, 2>>

(***************************************************************************)
(* ReadSpec: the reading calls of the MultiLevelCache (get, has, keys)     *)
(* over levels of every kind whose entries are set with and without a ttl  *)
(* and expire as time passes.                                              *)
(***************************************************************************)
\* adapter.has(key): of the MemoryAdapter as written; SessionStorageAdapter
\* answers get(key) !== undefined, FileAdapter reads the item, deletes it if
\* it is expired and answers whether it was not.
Adapter_has(a, key, t) ==
    IF a.kind = "memory" THEN MemoryAdapter_has(a, key, t)
    ELSE IF ~MapHas(a.cache, key) THEN [a |-> a, ret |-> FALSE]
    ELSE IF IsExpired(MapGet(a.cache, key), t)
         THEN [a |-> External_delete(a, key), ret |-> FALSE]
         ELSE [a |-> a, ret |-> TRUE]

\* adapter.keys(): the stored keys whose has is true; the expired ones are
\* removed on the way.
Adapter_keys(a, t) == MemoryAdapter_keys(a, t)

RECURSIVE RunHas(_, _, _)
\* A has that asks the first level only.
RunHas_FirstLevel(st, key, i) ==
    LET h == Adapter_has(st.adapters[1], key, now)
    IN [st EXCEPT !.adapters[1] = h.a, !.log = Append(@, <<1, "has", key>>),
                  !.ret = BoolStr(h.ret)]

\* The loop of has from level i on.
RunHas(st, key, i) ==
    IF i > Len(st.adapters) THEN [st EXCEPT !.ret = BoolStr(FALSE)]
    ELSE LET h == Adapter_has(st.adapters[i], key, now)
             asked == [st EXCEPT !.adapters[i] = h.a,
                                 !.log = Append(@, <<i, "has", key>>)]
         IN IF h.ret THEN [asked EXCEPT !.ret = BoolStr(TRUE)]
            ELSE RunHas(asked, key, i + 1)

\* MultiLevelCache.has(key)
MLHas(key) ==
    /\ call = NoCall
    /\ \E st \in {RunHas(Progress(<<>>), key, 1)} :
          /\ adapters' = st.adapters
          /\ recency' = MLRecency(st.adapters, {}, <<>>)
          /\ last' = MLLast("ML.has", key, <<>>, st.ret, st.log, {})
    /\ UNCHANGED <<now, call, inflight>>

RECURSIVE AddKeys(_, _)
\* An array that takes every key of every level.
AddKeys_Concat(keySets, keyList) == keySets \o keyList

\* keySets.add(key) for each key of a level: a Set keeps the order of the
\* first insertion and holds a key once.
AddKeys(keySets, keyList) ==
    IF keyList = <<>> THEN keySets
    ELSE AddKeys(IF \E n \in 1..Len(keySets) : keySets[n] = Head(keyList)
                 THEN keySets ELSE Append(keySets, Head(keyList)),
                 Tail(keyList))

RECURSIVE RunKeys(_, _)
\* The loop of keys from level i on; .ret is Array.from(keySets).
RunKeys(st, i) ==
    IF i > Len(st.adapters) THEN st
    ELSE LET r == Adapter_keys(st.adapters[i], now)
         IN RunKeys([st EXCEPT !.adapters[i] = r.a,
                               !.log = Append(@, <<i, "keys", "">>),
                               !.ret = AddKeys(@, r.ret)], i + 1)

\* MultiLevelCache.keys(): last.value is the array returned.
MLListKeys ==
    /\ call = NoCall
    /\ \E st \in {RunKeys([Progress(<<>>) EXCEPT !.ret = <<>>], 1)} :
          /\ adapters' = st.adapters
          /\ recency' = MLRecency(st.adapters, {}, <<>>)
          /\ last' = MLLast("ML.keys", "", st.ret, "ok", st.log, {})
    /\ UNCHANGED <<now, call, inflight>>

\* adapter.set(key, value, ttl) made on level i directly.  The levels are
\* filled before the MultiLevelCache is read.
AdapterSet(i, key, value, ttl) ==
    /\ last.op \in {"new", "set"}
    /\ Step(i, Adapter_set(adapters[i], key, value, ttl, now), <<key>>,
            Last("set", i, key, undefined, <<>>, 0))

\* The entries set on the levels, each with its ttl; a value may be
\* undefined.
ReadEntries == {<<"a", "v1", 1>>, <<"a", undefined, 0>>, <<"", "v1", 0>>}

ReadInit ==
    /\ \E n \in 1..JoinLevels : \E kinds \in LevelKinds(n) :
           adapters = [i \in 1..n |->
                          IF kinds[i] = "memory"
                          THEN MemoryAdapter(0, IF i = 1 THEN 1 ELSE 0, "lru")
                          ELSE ExternalAdapter(kinds[i])]
    /\ now = 1
    /\ last = Last("new", 0, "", undefined, <<>>, 0)
    /\ recency = [i \in DOMAIN adapters |-> <<>>]
    /\ call = NoCall
    /\ inflight = [i \in DOMAIN adapters |-> <<>>]

ReadNext ==
    \/ \E i \in Levels, e \in ReadEntries : AdapterSet(i, e[1], e[2], e[3])
    \/ Tick
    \/ \E key \in MLKeys : MLGet(key, {})
    \/ MLGetResume({})
    \/ \E i \in Levels : Settle(i)
    \/ \E key \in MLKeys : MLHas(key)
    \/ MLListKeys

ReadSpec == ReadInit /\ [][ReadNext]_vars

\* The levels whose has(key) is true.
HasLevels(key) == {i \in Levels : Adapter_has(adapters[i], key, now).ret}

\* The entries of a level: its keys with their values.
EntriesOf(a) == {<<a.cache[n].key, a.cache[n].value>> : n \in 1..Len(a.cache)}

\* C16: MultiLevelCache.has(k) returns true exactly when the has(k) of some
\* level is true; it asks the levels in order and no level after the first
\* one that answers true; and it writes k into no level.
C16_HasAsksUntilTrue ==
    [][\A key \in MLKeys :
          MLHas(key) =>
              /\ last'.ret = BoolStr(HasLevels(key) # {})
              /\ LevelsOf(last'.list, {"has"}) =
                     {i \in Levels : \A j \in HasLevels(key) : i <= j}
              /\ \A n \in 1..Len(last'.list) : last'.list[n] = <<n, "has", key>>
              /\ inflight' = inflight
              /\ \A i \in Levels : EntriesOf(adapters'[i]) \subseteq EntriesOf(adapters[i])]_vars

\* A has returned true after the first level, which does not hold the key,
\* was asked, and the first level still does not hold it.
C16_Witness ==
    /\ last.op = "ML.has"
    /\ last.ret = BoolStr(TRUE)
    /\ last.list = <<<<1, "has", "a">>, <<2, "has", "a">>>>
    /\ ~MapHas(adapters[1].cache, "a")

\* The keys the keys() of level i reports.
KeysOfLevel(i) == Adapter_keys(adapters[i], now).ret

\* C17: MultiLevelCache.keys() returns every key that the keys() of at least
\* one level reports, each exactly once, and no other key.
C17_KeysIsTheUnion ==
    [][MLListKeys =>
          /\ {last'.value[n] : n \in 1..Len(last'.value)} =
                 UNION {{KeysOfLevel(i)[n] : n \in 1..Len(KeysOfLevel(i))} : i \in Levels}
          /\ \A n, m \in 1..Len(last'.value) :
                 last'.value[n] = last'.value[m] => n = m]_vars

\* keys returned two keys, one of which two levels hold.
C17_Witness ==
    /\ last.op = "ML.keys"
    /\ Len(last.value) = 2
    /\ Len(adapters) = 2
    /\ \A i \in Levels : Visible(adapters[i], "a")

\* A step of MultiLevelCache.get: its synchronous start or its resumption
\* after the awaited get of a remote level.
GetStep == (\E key \in MLKeys : MLGet(key, {})) \/ MLGetResume({})

\* The key of the get that takes a GetStep.
GetStepKey == IF call' = NoCall THEN last'.key ELSE call'.key

\* C18: when no level returns a defined value for k, get(k) returns absent
\* and issues no set to any level: every level holds the keys and values it
\* held before, apart from k where a level held it expired and removed it.
C18_MissWritesNothing ==
    [][GetStep /\ (call' = NoCall => last'.ret = undefined) =>
          /\ call' = NoCall => CallsOf(last'.list, "set") = <<>>
          /\ inflight' = inflight
          /\ \A i \in Levels :
                /\ EntriesOf(adapters'[i]) \subseteq EntriesOf(adapters[i])
                /\ \A e \in EntriesOf(adapters[i]) \ EntriesOf(adapters'[i]) :
                      /\ e[1] = GetStepKey
                      /\ IsExpired(MapGet(adapters[i].cache, e[1]), now)]_vars

\* A get of "a" returned absent after both levels were asked, when time had
\* passed; a level holds "a" with the value undefined and another entry.
C18_Witness ==
    /\ last.op = "ML.get"
    /\ last.key = "a"
    /\ last.ret = undefined
    /\ CallsOf(last.list, "get") = <<1, 2>>
    /\ now = MaxTime
    /\ EntriesOf(adapters[2]) = {<<"a", undefined>>, <<"", "v1">>}

(***************************************************************************)
(* ExpirySpec: one MemoryAdapter, with or without a default ttl, whose     *)
(* entries are set with a ttl argument or without one.                     *)
(***************************************************************************)
\* The largest ttl a call supplies.
MaxTtl == 2

\* The ttl argument of a call: <<>> when it is omitted, <<n>> when n is
\* supplied.
TtlArgs == {<<>>} \cup {<<n>> : n \in 0..MaxTtl}

\* What `ttl ? ... : ...` tests: undefined and 0 are both falsy.
TtlOf(ttlArg) == IF ttlArg = <<>> THEN 0 ELSE ttlArg[1]

\* set(key, value, ttl?) on adapter i
SetWithTtl(i, key, value, ttlArg) == Set(i, key, value, TtlOf(ttlArg), {})

ExpiryNext ==
    \/ \E key \in TtlKeys, ttlArg \in TtlArgs : SetWithTtl(1, key, "v1", ttlArg)
    \/ \E key \in TtlKeys : Get(1, key)
    \/ Tick

ExpirySpec == TtlInit /\ [][ExpiryNext]_vars

\* C19: MemoryAdapter.set(k, v, ttl) gives the entry expiresAt = now + ttl
\* whenever a ttl is supplied, otherwise now + the default ttl when the
\* adapter has one, otherwise no expiry.
C19_SuppliedTtlTakesPrecedence ==
    [][\A key \in TtlKeys, ttlArg \in TtlArgs :
          SetWithTtl(1, key, "v1", ttlArg) =>
              MapGet(A1'.cache, key).expiresAt =
                  IF ttlArg # <<>> THEN now + ttlArg[1]
                  ELSE IF A1.ttl > 0 THEN now + A1.ttl
                  ELSE 0]_vars

\* C19 for the ttls that are not 0.
C19_NonZeroTtlTakesPrecedence ==
    [][\A key \in TtlKeys, ttlArg \in TtlArgs \ {<<0>>} :
          SetWithTtl(1, key, "v1", ttlArg) =>
              MapGet(A1'.cache, key).expiresAt =
                  IF ttlArg # <<>> THEN now + ttlArg[1]
                  ELSE IF A1.ttl > 0 THEN now + A1.ttl
                  ELSE 0]_vars

\* An adapter with the default ttl 1 holds an entry set with the ttl 2.
C19_NonZeroWitness ==
    /\ A1.ttl = 1
    /\ last.op = "set"
    /\ MapHas(A1.cache, last.key)
    /\ MapGet(A1.cache, last.key).expiresAt = now + 2

(***************************************************************************)
(* HasSpec: one bounded MemoryAdapter whose entries are set, read and      *)
(* asked for while time passes.                                            *)
(***************************************************************************)
HasInit ==
    /\ \E maxSize \in 1..MaxSizeBound, strategy \in Strategies :
           adapters = <<MemoryAdapter(0, maxSize, strategy)>>
    /\ now = 1
    /\ last = Last("new", 1, "", undefined, <<>>, 0)
    /\ recency = <<<<>>>>
    /\ call = NoCall
    /\ inflight = <<<<>>>>

HasKeys == {"a", "b"}

HasNext ==
    \/ \E key \in HasKeys, ttl \in {0, 1} : Set(1, key, "v1", ttl, {})
    \/ \E key \in HasKeys : Get(1, key)
    \/ \E key \in HasKeys : Has(1, key)
    \/ Tick

HasSpec == HasInit /\ [][HasNext]_vars

\* The keys the next eviction removes from the Map.
NextVictims(a) == MapKeySet(a.cache) \ MapKeySet(evict(a).cache)

\* C20: MemoryAdapter.has(k) on a held key that is not expired changes
\* neither the entry's accessedAt, its accessCount nor accessOrder, and so,
\* under every strategy, not the key the next eviction removes.
C20_HasLeavesTheOrderAlone ==
    [][\A key \in HasKeys :
          Has(1, key) /\ Visible(A1, key) =>
              /\ last'.ret = BoolStr(TRUE)
              /\ MapGet(A1'.cache, key).accessedAt = MapGet(A1.cache, key).accessedAt
              /\ MapGet(A1'.cache, key).accessCount = MapGet(A1.cache, key).accessCount
              /\ A1'.accessOrder = A1.accessOrder
              /\ A1'.cache = A1.cache
              /\ NextVictims(A1') = NextVictims(A1)]_vars

\* has was true of a key that was last accessed at an earlier time and that
\* is not the most recently used key of a full adapter.
C20_Witness ==
    /\ last.op = "has"
    /\ last.ret = BoolStr(TRUE)
    /\ Len(A1.cache) = A1.maxSize
    /\ Len(A1.cache) = 2
    /\ MapGet(A1.cache, last.key).accessedAt < now
    /\ NextVictims(A1) = {last.key}

\* C21: MemoryAdapter.keys() returns exactly the held keys whose expiresAt is
\* unset or not yet passed, and when it returns every entry that was expired
\* at the call is gone from the Map and from accessOrder, the other entries
\* being left as they were.
C21_KeysReturnsTheLiveKeys ==
    [][Keys(1) =>
          /\ SeqToSet(last'.list) =
                 {key \in MapKeySet(A1.cache) : ~IsExpired(MapGet(A1.cache, key), now)}
          /\ Len(last'.list) = Cardinality(SeqToSet(last'.list))
          /\ \A key \in MapKeySet(A1.cache) :
                 IF IsExpired(MapGet(A1.cache, key), now)
                 THEN Gone(key)
                 ELSE /\ MapHas(A1'.cache, key)
                      /\ MapGet(A1'.cache, key) = MapGet(A1.cache, key)
          /\ MapKeySet(A1'.cache) \subseteq MapKeySet(A1.cache)]_vars

\* keys has returned one key and removed another, which was expired.
C21_Witness ==
    /\ last.op = "keys"
    /\ Len(last.list) = 1
    /\ last.removed # {}
    /\ MapKeySet(A1.cache) = SeqToSet(last.list)

\* C22: MemoryAdapter.delete(k) on a key that is not held leaves the Map,
\* accessOrder and every entry unchanged, and a second delete(k) leaves the
\* state the first one left.
C22_DeleteIsIdempotent ==
    [][\A key \in AllKeys :
          Delete(1, key) =>
              /\ ~MapHas(A1.cache, key) => A1' = A1
              /\ ~MapHas(A1'.cache, key)
              /\ MemoryAdapter_delete(A1', key) = A1']_vars

\* A delete of a key that was not held has left an adapter that holds two
\* other keys.
C22_Witness ==
    /\ last.op = "delete"
    /\ last.removed = {}
    /\ Len(A1.cache) = 2
    /\ Len(A1.accessOrder) = 2

\* C23: the sweep of a MemoryAdapter runs exactly when the adapter was
\* constructed with a default ttl > 0 and stopCleanup has not been called:
\* it runs from the construction on iff ttl > 0, stopCleanup stops it and
\* changes nothing when no sweep is running, and every other step leaves the
\* timer as it is, so that nothing restarts it.
C23_SweepRunsUntilStopped ==
    /\ A1.cleanupTimer = (A1.ttl > 0)
    /\ [][/\ StopCleanup(1) => ~A1'.cleanupTimer
          /\ StopCleanup(1) /\ ~A1.cleanupTimer => A1' = A1
          /\ ~StopCleanup(1) => A1'.cleanupTimer = A1.cleanupTimer
          /\ Sweep(1) => A1.cleanupTimer]_vars

\* An adapter built with a default ttl, whose sweep was stopped, has been
\* written to since and its sweep is not running.
C23_Witness ==
    /\ A1.ttl > 0
    /\ ~A1.cleanupTimer
    /\ last.op = "set"

(***************************************************************************)
(* SweepSpec: a MemoryAdapter with or without a default ttl whose entries  *)
(* are set and read while time passes, and whose timer keeps firing:       *)
(* setInterval calls the callback again and again for as long as the       *)
(* timer is not cleared.                                                   *)
(***************************************************************************)
SweepNext ==
    \/ \E key \in TtlKeys, ttl \in {0, 1} : Set(1, key, "v1", ttl, {})
    \/ \E key \in TtlKeys : Get(1, key)
    \/ Sweep(1)
    \/ StopCleanup(1)
    \/ Tick

SweepSpec == TtlInit /\ [][SweepNext]_vars /\ WF_vars(Sweep(1))

\* C24: in a MemoryAdapter built with a default ttl > 0 whose sweep has not
\* been stopped, an entry whose expiresAt has passed is eventually gone from
\* the Map and from accessOrder (or replaced by a later set of its key),
\* whether or not the key is ever read again.
C24_SweepRemovesTheExpired ==
    \A key \in TtlKeys :
        (A1.cleanupTimer /\ PastExpiry(key))
            ~> \/ ~A1.cleanupTimer
               \/ ~MapHas(A1.cache, key) /\ key \notin SeqToSet(A1.accessOrder)
               \/ MapHas(A1.cache, key) /\ ~IsExpired(MapGet(A1.cache, key), now)

\* A sweep has removed an expired entry.
C24_Witness ==
    /\ last.op = "sweep"
    /\ last.removed # {}
    /\ A1.cleanupTimer

\* accessOrder holds exactly the keys of the Map, each once.
OrderMatchesMap(a) ==
    /\ SeqToSet(a.accessOrder) = MapKeySet(a.cache)
    /\ Len(a.accessOrder) = Len(a.cache)

\* C25: between any two operations of a MemoryAdapter accessOrder contains
\* exactly the keys of the Map, no held key missing, no key that is not
\* held and no key twice, whichever strategy is configured.
C25_OrderMatchesMap == OrderMatchesMap(A1)

\* C25 for the strategies fifo and lru while the key "" is not held.
C25_OrderMatchesMapFifoLru ==
    (A1.strategy \in {"fifo", "lru"} /\ ~MapHas(A1.cache, ""))
        => OrderMatchesMap(A1)

\* A full fifo or lru adapter has taken a new key and evicted another.
C25_FifoLruWitness ==
    /\ A1.strategy \in {"fifo", "lru"}
    /\ last.op = "set"
    /\ last.removed # {}
    /\ Len(A1.cache) = 1
    /\ OrderMatchesMap(A1)

(***************************************************************************)
(* RaceSpec: two callers of one MultiLevelCache of two levels.  While the  *)
(* get of the first caller awaits a remote level, the second caller calls  *)
(* set or delete; the two calls then go on in either order.  call holds    *)
(* both calls in progress: [op |-> "both", get |-> ..., write |-> ...].    *)
(***************************************************************************)
RaceKey == "a"

\* set or delete called while a get is suspended at a remote level.
ConcurrentWrite(w) ==
    /\ call.op = "get"
    /\ Room
    /\ \E st \in {FanOut(Progress(<<>>), w, 1, Len(adapters), {}, 1)} :
          /\ adapters' = st.adapters
          /\ inflight' = st.inflight
          /\ recency' = MLRecency(st.adapters,
                                  {i \in LevelsOf(st.log, {"set"}) :
                                      st.adapters[i].kind # "remote"},
                                  [n \in 1..Len(w.data) |-> w.data[n][1]])
          /\ call' = [op |-> "both", get |-> call,
                      write |-> Calling(MLOp(w), w.key, w, 0, st.log)]
    /\ UNCHANGED <<now, last>>

\* The awaited get of a remote level returns while the write is in progress.
ConcurrentGetResume ==
    /\ call.op = "both"
    /\ CanHit(call.get.key)
    /\ Room
    /\ \E st \in {RunGet(Progress(call.get.log), call.get.key, call.get.i, TRUE, {})} :
          /\ adapters' = st.adapters
          /\ inflight' = st.inflight
          /\ recency' = MLRecency(st.adapters,
                                  IF st.ret = undefined THEN {}
                                  ELSE {i \in LevelsOf(st.log, {"get", "set"}) :
                                           st.adapters[i].kind # "remote"
                                               /\ i <= HitLevel(st.log)},
                                  <<call.get.key>>)
          /\ IF st.suspended # 0
             THEN /\ call' = [call EXCEPT !.get = Calling("get", call.get.key, call.get.w,
                                                          st.suspended, st.log)]
                  /\ last' = last
             ELSE /\ call' = call.write
                  /\ last' = MLLast("ML.get", call.get.key, <<>>, st.ret, st.log, {})
    /\ UNCHANGED now

\* Promise.all of the write is fulfilled while the get is suspended.
ConcurrentReturn ==
    /\ call.op = "both"
    /\ Awaited(inflight) = {}
    /\ last' = MLLast(call.write.op, call.write.key, call.write.w.data, "ok",
                      call.write.log, {})
    /\ call' = call.get
    /\ UNCHANGED <<adapters, now, recency, inflight>>

RaceNext ==
    \/ \E i \in Levels : AdapterSet(i, RaceKey, "v1", 0)
    \/ MLGet(RaceKey, {})
    \/ MLGetResume({})
    \/ MLSet(RaceKey, "v2", 0, {})
    \/ MLDelete(RaceKey, {})
    \/ ConcurrentWrite(Write("set", RaceKey, <<<<RaceKey, "v2">>>>, 0, TRUE))
    \/ ConcurrentWrite(Write("delete", RaceKey, <<>>, 0, TRUE))
    \/ ConcurrentGetResume
    \/ ConcurrentReturn
    \/ \E i \in Levels : Settle(i)
    \/ MLReturn

RaceSpec == JoinInit /\ [][RaceNext]_vars

\* Every call has returned and no write is in flight.
Quiet == call = NoCall /\ \A i \in Levels : inflight[i] = <<>>

\* C26: a get(k) that runs concurrently with a set(k, v2) or a delete(k)
\* does not undo the write through its backfill: once all calls have
\* returned, every level holds v2 for k after the set and no level holds k
\* after the delete.
C26_BackfillDoesNotUndoAWrite ==
    /\ (Quiet /\ last.op = "ML.set" /\ last.ret = "ok")
           => \A i \in Levels : Holds(adapters[i], last.key, last.value[1][2])
    /\ (Quiet /\ last.op = "ML.delete" /\ last.ret = "ok")
           => \A i \in Levels : ~MapHas(adapters[i].cache, last.key)

\* C27: when MultiLevelCache.get(k) returns a value found at level i, the
\* backfill set of every level j < i is complete, also on a level whose set
\* returns a promise: level j holds k with that value as get returns.
C27_BackfillCompleteAtReturn ==
    [][(GetReturns /\ last'.ret \notin {undefined, "error"}) =>
          \A j \in 1..(HitLevel(last'.list) - 1) :
              Holds(adapters'[j], last'.key, last'.ret)]_vars

\* C27 for the levels above the hit whose set returns synchronously.
C27_SyncBackfillCompleteAtReturn ==
    [][(GetReturns /\ last'.ret \notin {undefined, "error"}) =>
          \A j \in 1..(HitLevel(last'.list) - 1) :
              adapters[j].kind # "remote" => Holds(adapters'[j], last'.key, last'.ret)]_vars

\* get returned a value found at the second level, whose backfill of the
\* first level, a storage level, is complete.
C27_SyncWitness ==
    /\ last.op = "ML.get"
    /\ last.ret \in AllValues
    /\ HitLevel(last.list) = 2
    /\ adapters[1].kind = "storage"
    /\ Holds(adapters[1], last.key, last.ret)

(***************************************************************************)
(* TagBackfillSpec: the levels of TagLevelsSpec written through the        *)
(* MultiLevelCache only: set with tags, get with its backfill, and         *)
(* deleteByTags.  A copy of a key that carries tags was then written by    *)
(* the latest set of the key, which replaced the copies of every level.    *)
(***************************************************************************)
TagBackfillNext ==
    \/ \E key \in MLKeys, tags \in SUBSET AllTags : MLSetTagged(key, "v1", tags)
    \/ \E key \in MLKeys : MLGet(key, {})
    \/ \E tags \in SUBSET AllTags : MLDeleteByTags(tags)

TagBackfillSpec == TagLevelsInit /\ [][TagBackfillNext]_vars

\* C28: after MultiLevelCache.deleteByTags(T) has returned, get(k) returns
\* absent for every key k whose latest set carried a tag of T, whatever gets,
\* backfills and evictions came between the two: no level holds k.
C28_DeleteByTagsSurvivesBackfill ==
    [][\A tags \in SUBSET AllTags :
          MLDeleteByTags(tags) =>
              \A key \in MLKeys :
                  (\E i \in Levels : key \in TaggedAt(i, tags))
                      => \A i \in Levels : ~Visible(adapters'[i], key)]_vars

\* C28 when no level holds a copy of the key that a backfill wrote.
C28_DeleteByTagsWithoutBackfill ==
    [][\A tags \in SUBSET AllTags :
          MLDeleteByTags(tags) =>
              \A key \in MLKeys :
                  /\ \E i \in Levels : key \in TaggedAt(i, tags)
                  /\ \A i \in Levels :
                        MapHas(adapters[i].cache, key) => key \in TaggedAt(i, tags)
                  => \A i \in Levels : ~Visible(adapters'[i], key)]_vars

\* deleteByTags has removed a key from both levels.
C28_WithoutBackfillWitness ==
    /\ last.op = "ML.deleteByTags"
    /\ last.n = 2
    /\ Len(adapters) = 2
    /\ \A i \in Levels : adapters[i].cache = <<>>

(***************************************************************************)
(* TtlLevelsSpec: a MultiLevelCache of MemoryAdapters, the first of which  *)
(* holds one entry at most and may have a default ttl.  Every entry is     *)
(* written with the ttl 1.  The value of a set of the MultiLevelCache      *)
(* names the time of the write, so that a value read later tells how old   *)
(* it is; the value "d" is written, with a tag, to a level directly.       *)
(***************************************************************************)
\* The value written at time t.
Stamp(t) == ToString(t)

TtlLevelsInit ==
    /\ \E n \in 1..JoinLevels, ttl \in {0, 2} :
           adapters = [i \in 1..n |->
                          IF i = 1 THEN MemoryAdapter(ttl, 1, "lru")
                          ELSE MemoryAdapter(0, 0, "lru")]
    /\ now = 1
    /\ last = Last("new", 0, "", undefined, <<>>, 0)
    /\ recency = [i \in DOMAIN adapters |-> <<>>]
    /\ call = NoCall
    /\ inflight = [i \in DOMAIN adapters |-> <<>>]

TtlLevelsNext ==
    \/ \E i \in Levels : Set(i, "a", "d", 1, {"t1"})
    \/ \E key \in MLKeys : MLSet(key, Stamp(now), 1, {})
    \/ MLReturn
    \/ \E key \in MLKeys : MLGet(key, {})
    \/ \E keyList \in {<<"a">>, <<"", "a">>} : MLGetMany(keyList)
    \/ Tick

TtlLevelsSpec == TtlLevelsInit /\ [][TtlLevelsNext]_vars

\* What MultiLevelCache.get(key) returns when it is called now.
GetNow(key) == RunGet(Progress(<<>>), key, 1, FALSE, {}).ret

\* C29: a value written with set(k, v, ttl) is not returned by get(k) once
\* ttl has elapsed since that set, even if k was evicted from a level and
\* backfilled from a lower one in the meantime: with every write carrying
\* the ttl 1, get returns no value written before now - 1.
C29_GetReturnsNothingPastItsTtl ==
    \A key \in MLKeys, t \in 1..MaxTime :
        (call = NoCall /\ GetNow(key) = Stamp(t)) => now <= t + 1

\* The entry a set without ttl and tags writes to level j now.
BackfilledEntry(j, key, value) ==
    /\ MapGet(adapters'[j].cache, key).value = value
    /\ MapGet(adapters'[j].cache, key).tags = {}
    /\ MapGet(adapters'[j].cache, key).expiresAt =
           IF adapters[j].ttl > 0 THEN now + adapters[j].ttl ELSE 0

\* C30: the backfill of get and of getMany passes neither a ttl nor tags:
\* the entry it writes to a MemoryAdapter level has no tags and expires by
\* the default ttl of that level only, never when the level has none,
\* whatever the expiry and the tags of the entry at the level of the hit.
C30_BackfillPassesNoTtlNoTags ==
    [][/\ \A key \in MLKeys :
              (MLGet(key, {}) /\ last'.ret # undefined) =>
                  \A j \in 1..(HitLevel(last'.list) - 1) :
                      /\ MapHas(adapters'[j].cache, key)
                      /\ BackfilledEntry(j, key, last'.ret)
       /\ \A keyList \in {<<"a">>, <<"", "a">>} :
              MLGetMany(keyList) =>
                  \A n \in 1..Len(last'.value) :
                      (last'.value[n][2] = "set"
                          /\ MapHas(adapters'[last'.value[n][1]].cache, last'.value[n][3]))
                      => \E m \in 1..Len(last'.list) :
                             /\ last'.list[m][1] = last'.value[n][3]
                             /\ BackfilledEntry(last'.value[n][1], last'.value[n][3],
                                                last'.list[m][2])]_vars

\* get returned a value whose entry at the second level has a tag and the
\* ttl 1; the first level, with the default ttl 2, holds it without tags
\* until now + 2.
C30_Witness ==
    /\ last.op = "ML.get"
    /\ last.ret = "d"
    /\ Len(adapters) = 2
    /\ adapters[1].ttl = 2
    /\ Holds(adapters[1], "a", "d")
    /\ MapGet(adapters[1].cache, "a").tags = {}
    /\ MapGet(adapters[1].cache, "a").expiresAt = now + 2
    /\ Holds(adapters[2], "a", "d")
    /\ MapGet(adapters[2].cache, "a").tags = {"t1"}
    /\ MapGet(adapters[2].cache, "a").expiresAt <= now + 1

\* C31: getMany asks level i only for the keys that the levels before i
\* did not resolve: a key of the list that a level before i holds is not
\* read at level i, so its entry there keeps its accessCount and its
\* accessedAt.
C31_GetManyAsksOnlyUnresolved ==
    [][\A keyList \in GetManyKeyLists :
           MLGetMany(keyList) =>
               \A key \in GetManyKeys, i \in Levels :
                   (/\ indexOf(keyList, key) # 0
                    /\ FirstHolding(key) # 0
                    /\ FirstHolding(key) < i
                    /\ MapHas(adapters[i].cache, key))
                   => MapGet(adapters'[i].cache, key) = MapGet(adapters[i].cache, key)]_vars

\* What holds of C31: once every key of the list is resolved, no further
\* level is asked (for lists without a key named like a member of
\* Object.prototype, see C15).
C31_GetManyStopsWhenResolved ==
    [][\A keyList \in GetManyKeyLists :
           (/\ MLGetMany(keyList)
            /\ \A n \in 1..Len(keyList) : keyList[n] \notin ObjectPrototypeKeys)
           => \A i \in Levels :
                  (\A n \in 1..Len(keyList) :
                       FirstHolding(keyList[n]) # 0 /\ FirstHolding(keyList[n]) <= i)
                  => \A m \in 1..Len(last'.value) : last'.value[m][1] <= i]_vars

\* getMany(["a"]) found "a" at the first of several levels and asked no
\* other level.
C31_StopsWitness ==
    /\ last.op = "ML.getMany"
    /\ Len(adapters) > 1
    /\ last.list = <<<<"a", "v1">>>>
    /\ last.value = <<<<1, "getMany", "">>>>
    /\ Visible(adapters[2], "a")

\* The levels on which the write of the call in progress has been made and
\* is no longer awaited, level i apart.
WrittenBut(i) ==
    (LevelsOf(call.log, {"set"}) \ Awaited(inflight)) \ {i}

\* C32: a set of the MultiLevelCache that fails at one level rolls nothing
\* back.  When a level's promise is rejected, no level changes in that
\* step, and the levels whose write was made and has succeeded hold the new
\* value; when a level's call throws, that level is left as it was and the
\* levels written before it hold the new value.
C32_FailedSetRollsNothingBack ==
    [][/\ \A i \in Levels :
              (Settle(i) /\ WriteRejected /\ call.op = "ML.set") =>
                  /\ adapters' = adapters
                  /\ i \in last'.failed
                  /\ \A j \in WrittenBut(i) :
                         Holds(adapters'[j], call.key, call.w.data[1][2])
       /\ (WriteThrown /\ last'.op = "ML.set") =>
              \A i \in last'.failed :
                  /\ adapters'[i] = adapters[i]
                  /\ \A j \in 1..(i - 1) :
                         IF adapters[j].kind = "remote"
                         THEN Len(inflight'[j]) = Len(inflight[j]) + 1
                         ELSE Holds(adapters'[j], last'.key, last'.value[1][2])]_vars

\* set failed at the second level, which holds nothing, while the first
\* level holds the value of the call.
C32_Witness ==
    /\ last.op = "ML.set"
    /\ last.ret = "error"
    /\ last.failed = {2}
    /\ adapters[2].cache = <<>>
    /\ Holds(adapters[1], last.key, last.value[1][2])

\* C33: a set removes at most one key, never the key it sets, and removes
\* one only when that key is not held and the Map holds maxSize entries (or
\* more); it leaves the entries of the other keys as they are.
C33_SetRemovesAtMostOneKey ==
    [][\A key \in AllKeys :
           Set(1, key, "v1", 0, {}) =>
               /\ Cardinality(MapKeySet(A1.cache) \ MapKeySet(A1'.cache)) <= 1
               /\ MapHas(A1'.cache, key)
               /\ MapKeySet(A1.cache) \ MapKeySet(A1'.cache) # {}
                      => (~MapHas(A1.cache, key) /\ Len(A1.cache) >= A1.maxSize)
               /\ \A k \in MapKeySet(A1'.cache) \ {key} :
                      MapHas(A1.cache, k) /\ MapGet(A1'.cache, k) = MapGet(A1.cache, k)]_vars

\* A set of a key that was not held removed one key from a full Map.
C33_Witness ==
    /\ last.op = "set"
    /\ Cardinality(last.removed) = 1
    /\ last.key \notin last.removed
    /\ Len(A1.cache) = 2
    /\ A1.maxSize = 2

(***************************************************************************)
(* OverwriteSpec: one MemoryAdapter without a bound on its size, whose     *)
(* keys are set again with other values, ttls and tags.                    *)
(***************************************************************************)
OverwriteKeys == {"a", "b"}

OverwriteTags == {{}, {"t1"}}

OverwriteNext ==
    \/ \E key \in OverwriteKeys, value \in AllValues, ttl \in {0, 2},
          tags \in OverwriteTags : Set(1, key, value, ttl, tags)
    \/ DeleteByTags(1, {"t1"})
    \/ Tick

OverwriteSpec == TtlInit /\ [][OverwriteNext]_vars

\* C34: a set on a held key replaces the whole entry.  Afterwards get
\* returns the new value; the expiry is that of the new call (now + ttl,
\* else now + the default ttl, else none) whatever the old one was; the
\* tags are those of the new call, so that a deleteByTags with tags the new
\* call did not give leaves the key; under lru the key is the most recently
\* used one, under fifo the order is unchanged.
C34_SetReplacesTheEntry ==
    [][\A key \in OverwriteKeys, value \in AllValues, ttl \in {0, 2},
          tags \in OverwriteTags :
           (Set(1, key, value, ttl, tags) /\ MapHas(A1.cache, key)) =>
               /\ MemoryAdapter_get(A1', key, now).ret = value
               /\ MapGet(A1'.cache, key).expiresAt =
                      IF ttl # 0 THEN now + ttl
                      ELSE IF A1.ttl > 0 THEN now + A1.ttl ELSE 0
               /\ MapGet(A1'.cache, key).tags = tags
               /\ MapGet(A1'.cache, key).accessCount = 0
               /\ \A old \in SUBSET AllTags :
                      old \cap tags = {} =>
                          MapHas(MemoryAdapter_deleteByTags(A1', old).a.cache, key)
               /\ MapKeys(A1'.cache) = MapKeys(A1.cache)
               /\ A1.strategy = "lru" =>
                      A1'.accessOrder =
                          Append(SelectSeq(A1.accessOrder, LAMBDA k : k # key), key)
               /\ A1.strategy = "fifo" => A1'.accessOrder = A1.accessOrder]_vars

\* Under lru "a", inserted before "b", was set again without tags and
\* without ttl, and a deleteByTags then removed nothing: "a" is held with the
\* second value, no tags and no expiry, and is the most recently used key.
C34_Witness ==
    /\ last.op = "deleteByTags"
    /\ last.n = 0
    /\ A1.strategy = "lru"
    /\ A1.ttl = 0
    /\ MapKeys(A1.cache) = <<"a", "b">>
    /\ A1.accessOrder = <<"b", "a">>
    /\ MapGet(A1.cache, "a").value = "v2"
    /\ MapGet(A1.cache, "a").tags = {}
    /\ MapGet(A1.cache, "a").expiresAt = 0
    /\ MapGet(A1.cache, "a").accessCount = 0
    /\ MapGet(A1.cache, "a").accessedAt > MapGet(A1.cache, "b").accessedAt

\* The accessCount of a held key.
CountOf(a, key) == MapGet(a.cache, key).accessCount

\* The keys held before and after the step, `keys` apart, keep their count.
CountsKeptBut(keys) ==
    \A k \in (MapKeySet(A1.cache) \cap MapKeySet(A1'.cache)) \ keys :
        CountOf(A1', k) = CountOf(A1, k)

\* C35: under lfu the accessCount of a held key is the number of successful
\* gets of the key since its most recent set: a set of the key, held or
\* not, leaves it at 0, a get that returns the value adds one to it, and no
\* other call changes it.
C35_CountIsGetsSinceLastSet ==
    [][A1.strategy = "lfu" =>
        /\ \A key \in AllKeys :
               Set(1, key, "v1", 0, {}) => (CountOf(A1', key) = 0 /\ CountsKeptBut({key}))
        /\ \A data \in DataLists :
               SetMany(1, data, 0) =>
                   /\ \A n \in 1..Len(data) :
                          MapHas(A1'.cache, data[n][1]) => CountOf(A1', data[n][1]) = 0
                   /\ CountsKeptBut({data[n][1] : n \in 1..Len(data)})
        /\ \A key \in AllKeys :
               Get(1, key) =>
                   /\ last'.ret # undefined => CountOf(A1', key) = CountOf(A1, key) + 1
                   /\ CountsKeptBut({key})
        /\ \A keyList \in KeyLists :
               GetMany(1, keyList) =>
                   /\ \A n \in 1..Len(last'.list) :
                          CountOf(A1', last'.list[n][1]) = CountOf(A1, last'.list[n][1]) + 1
                   /\ CountsKeptBut({last'.list[n][1] : n \in 1..Len(last'.list)})
        /\ ((\E key \in AllKeys : Delete(1, key) \/ Has(1, key)) \/ Keys(1) \/ Clear(1))
               => CountsKeptBut({})]_vars

\* Under lfu the key that comes first in the Map was set again after the
\* other key was inserted: it is held with the count 0, next to a key that
\* was read twice since its set.
C35_Witness ==
    /\ A1.strategy = "lfu"
    /\ last.op = "set"
    /\ Len(A1.cache) = 2
    /\ last.key = A1.cache[1].key
    /\ recency[1] = <<A1.cache[2].key, A1.cache[1].key>>
    /\ A1.cache[1].accessCount = 0
    /\ A1.cache[2].accessCount = 2

\* The places in the Map of the items whose accessCount is the least.
LeastCounted(cache) ==
    {i \in 1..Len(cache) :
        \A j \in 1..Len(cache) : cache[i].accessCount <= cache[j].accessCount}

\* The key of the first of them in the order of the Map.
FirstLeastCounted(cache) ==
    cache[CHOOSE i \in LeastCounted(cache) : \A j \in LeastCounted(cache) : i <= j].key

\* C36: under lfu, when several held keys share the least accessCount, a
\* set of a key that is not held, into an adapter holding maxSize entries,
\* evicts the one of them that comes first in the order of the Map.
C36_LfuTieEvictsFirstInMapOrder ==
    [][(/\ A1.strategy = "lfu"
        /\ SetOfNewKeyAtCapacity
        /\ Cardinality(LeastCounted(A1.cache)) > 1)
           => EvictedExactly(FirstLeastCounted(A1.cache))]_vars

\* What holds of C36: the same, from an adapter that holds no "" key.
C36_LfuTieWithoutEmptyKey ==
    [][(/\ A1.strategy = "lfu"
        /\ SetOfNewKeyAtCapacity
        /\ NoEmptyKey
        /\ Cardinality(LeastCounted(A1.cache)) > 1)
           => EvictedExactly(FirstLeastCounted(A1.cache))]_vars

\* Under lfu a set of "b" into a full adapter evicted "a" and left a key
\* that was never read.
C36_TieWitness ==
    /\ A1.strategy = "lfu"
    /\ A1.maxSize = 2
    /\ last.op = "set"
    /\ last.key = "b"
    /\ last.removed = {"a"}
    /\ Len(A1.cache) = 2
    /\ A1.cache[1].accessCount = 0

(***************************************************************************)
(* StaleSpec: one MemoryAdapter with maxSize entries at most, some of      *)
(* which expire while Date.now() moves on and stay in the Map until a call *)
(* finds them.                                                             *)
(***************************************************************************)
StaleNext ==
    \/ \E key \in AllKeys, ttl \in {0, 1} : Set(1, key, "v1", ttl, {})
    \/ \E key \in AllKeys : Get(1, key)
    \/ Tick

StaleSpec == EvictInit /\ [][StaleNext]_vars

\* The held keys whose entry is expired now.
Stale(a) == {k \in MapKeySet(a.cache) : IsExpired(MapGet(a.cache, k), now)}

\* The key the strategy names: the least recently used one, the one
\* inserted first, the first of the least read ones.
PolicyVictim ==
    IF A1.strategy = "lru" THEN Head(recency[1])
    ELSE IF A1.strategy = "fifo" THEN MapKeys(A1.cache)[1]
    ELSE FirstLeastCounted(A1.cache)

\* C37: expired entries that are still in the Map count towards maxSize and
\* the choice of the victim ignores expiry: a set of a key that is not held,
\* into an adapter holding maxSize entries some of which are expired, evicts
\* the strategy's victim, expired or not, and leaves the other entries.
C37_EvictionIgnoresExpiry ==
    [][(SetOfNewKeyAtCapacity /\ Stale(A1) # {}) => EvictedExactly(PolicyVictim)]_vars

\* What holds of C37: the same, from an adapter that holds no "" key.
C37_EvictionIgnoresExpiryWithoutEmptyKey ==
    [][(SetOfNewKeyAtCapacity /\ Stale(A1) # {} /\ NoEmptyKey)
           => EvictedExactly(PolicyVictim)]_vars

\* A set evicted a key from a full adapter and left an expired entry in it.
C37_StaleWitness ==
    /\ last.op = "set"
    /\ Cardinality(last.removed) = 1
    /\ A1.maxSize = 2
    /\ Len(A1.cache) = 2
    /\ Stale(A1) # {}

(***************************************************************************)
(* RedisAdapter and MemcachedAdapter: the items are JSON strings kept by   *)
(* the server under prefix:key, with the server's own expiry (EX, expires) *)
(* when a ttl is given; the keys of a tag are a JSON array kept under      *)
(* prefix:tag:<tag>:keys.  The two adapters read, write and delete in the  *)
(* same way.  getFullKey puts the prefix before the key and deleteByTags   *)
(* takes the first "prefix:" off again, which is the one getFullKey put.   *)
(***************************************************************************)
RedisKinds == {"redis", "memcached"}

\* The connected adapter over an empty server: cache holds the stored items,
\* each with the time at which the server drops it (ex, 0: never), tagKeys
\* the array of keys of each tag.
RedisAdapter(kind) ==
    [kind |-> kind, ttl |-> 0, maxSize |-> Infinity, strategy |-> "none",
     cache |-> <<>>, accessOrder |-> <<>>, cleanupTimer |-> FALSE,
     tagKeys |-> [tag \in AllTags |-> <<>>]]

\* client.get(fullKey) returns a string: the key was set and the server has
\* not dropped it.
ClientHas(a, key, t) ==
    /\ MapHas(a.cache, key)
    /\ MapGet(a.cache, key).ex = 0 \/ t < MapGet(a.cache, key).ex

\* set(key, value, ttl?, tags?): expiresAt and the server's expiry are set
\* only if ttl is truthy; the key is pushed to the array of each tag given
\* that does not include it.
Redis_set(a, key, value, ttl, tags, t) ==
    [a EXCEPT !.cache = MapSet(a.cache,
                            CacheItem(key, value, IF ttl # 0 THEN t + ttl ELSE 0, t, 0, tags)
                                @@ [ex |-> IF ttl # 0 THEN t + ttl ELSE 0]),
              !.tagKeys = [tag \in AllTags |->
                              IF tag \in tags /\ indexOf(a.tagKeys[tag], key) = 0
                              THEN Append(a.tagKeys[tag], key)
                              ELSE a.tagKeys[tag]]]

\* delete(key): client.del(fullKey)
Redis_delete(a, key) == [a EXCEPT !.cache = MapDelete(a.cache, key)]

\* get(key): the adapter afterwards (.a) and the value returned (.ret).  A
\* hit stores the item again: set(key, item.value, undefined, item.tags).
Redis_get(a, key, t) ==
    IF ~ClientHas(a, key, t) THEN [a |-> a, ret |-> undefined]
    ELSE LET item == MapGet(a.cache, key)
         IN IF IsExpired(item, t)
            THEN [a |-> Redis_delete(a, key), ret |-> undefined]
            ELSE [a |-> Redis_set(a, key, item.value, 0, item.tags, t),
                  ret |-> item.value]

\* deleteByTags(tags): the keys of the arrays of the tags are collected in
\* a Set, each is deleted and counted.
Redis_deleteByTags(a, tags) ==
    LET keysToDelete == UNION {SeqToSet(a.tagKeys[tag]) : tag \in tags}
    IN [a |-> [a EXCEPT !.cache =
                   SelectSeq(a.cache, LAMBDA item : item.key \notin keysToDelete)],
        ret |-> Cardinality(keysToDelete)]

RedisSet(key, value, ttl, tags) ==
    /\ adapters[1].kind \in RedisKinds
    /\ Step(1, Redis_set(adapters[1], key, value, ttl, tags, now), <<key>>,
            Last("set", 1, key, undefined, <<>>, 0))

RedisGet(key) ==
    /\ adapters[1].kind \in RedisKinds
    /\ LET g == Redis_get(adapters[1], key, now)
       IN Step(1, g.a, IF g.ret # undefined THEN <<key>> ELSE <<>>,
               Last("get", 1, key, g.ret, <<>>, 0))

RedisDelete(key) ==
    /\ adapters[1].kind \in RedisKinds
    /\ Step(1, Redis_delete(adapters[1], key), <<>>,
            Last("delete", 1, key, undefined, <<>>, 0))

RedisDeleteByTags(tags) ==
    /\ adapters[1].kind \in RedisKinds
    /\ LET r == Redis_deleteByTags(adapters[1], tags)
       IN Step(1, r.a, <<>>, Last("deleteByTags", 1, "", undefined, <<>>, r.ret))

(***************************************************************************)
(* RedisSpec: one RedisAdapter or MemcachedAdapter whose entries are set   *)
(* with the ttl 1 and the time of the set as value, or without ttl, with   *)
(* and without a tag, read and deleted while Date.now() moves on.          *)
(***************************************************************************)
RedisKeys == {"a", "b"}

RedisInit ==
    /\ \E kind \in RedisKinds : adapters = <<RedisAdapter(kind)>>
    /\ now = 1
    /\ last = Last("new", 1, "", undefined, <<>>, 0)
    /\ recency = <<<<>>>>
    /\ call = NoCall
    /\ inflight = <<<<>>>>

RedisNext ==
    \/ \E key \in RedisKeys, tags \in {{}, {"t1"}} :
           \/ RedisSet(key, Stamp(now), 1, tags)
           \/ RedisSet(key, "v1", 0, tags)
    \/ \E key \in RedisKeys : RedisGet(key)
    \/ \E key \in RedisKeys : RedisDelete(key)
    \/ RedisDeleteByTags({"t1"})
    \/ Tick

RedisSpec == RedisInit /\ [][RedisNext]_vars

\* The value a get of key returns now.
RedisGetNow(key) == Redis_get(A1, key, now).ret

\* C38: an entry stored with set(k, v, ttl) is not returned by get(k) once
\* ttl seconds have passed since that set, whatever gets hit it before: the
\* value of a set made at t with the ttl 1 is not returned after t + 1.
C38_ReadHitKeepsTheExpiry ==
    \A key \in RedisKeys, t \in 1..MaxTime :
        RedisGetNow(key) = Stamp(t) => now <= t + 1

\* What holds of C38: an item that still has the expiresAt of its set is
\* not returned after it.
C38_UnreadEntryExpires ==
    \A key \in RedisKeys, t \in 1..MaxTime :
        (/\ MapHas(A1.cache, key)
         /\ MapGet(A1.cache, key).expiresAt # 0
         /\ RedisGetNow(key) = Stamp(t))
        => now <= t + 1

\* An item set at 1 with the ttl 1 is still stored at 3, and get returns
\* undefined.
C38_UnreadWitness ==
    /\ now = 3
    /\ MapHas(A1.cache, "a")
    /\ MapGet(A1.cache, "a").value = Stamp(1)
    /\ MapGet(A1.cache, "a").expiresAt = 2
    /\ RedisGetNow("a") = undefined

\* The keys get can find in adapter a now, and those of them whose item
\* has one of `tags`.
RedisHeld(a) == {k \in RedisKeys : ClientHas(a, k, now)}

RedisTagged(a, tags) == {k \in RedisHeld(a) : MapGet(a.cache, k).tags \cap tags # {}}

\* C39: the arrays of the tags follow the entries: deleteByTags(T) deletes
\* and counts the keys that are held with a tag of T and no other key, so
\* not a key deleted or set again without the tag since it was tagged, and
\* a second deleteByTags(T) right after the first returns 0.
C39_TagIndexFollowsTheEntries ==
    [][RedisDeleteByTags({"t1"}) =>
           /\ last'.n = Cardinality(RedisTagged(A1, {"t1"}))
           /\ RedisHeld(A1) \ RedisHeld(A1') = RedisTagged(A1, {"t1"})
           /\ Redis_deleteByTags(A1', {"t1"}).ret = 0]_vars

\* What holds of C39: deleteByTags(T) leaves no held key with a tag of T,
\* and counts every key it deletes.
C39_DeleteByTagsRemovesTheTagged ==
    [][RedisDeleteByTags({"t1"}) =>
           /\ RedisTagged(A1', {"t1"}) = {}
           /\ RedisTagged(A1, {"t1"}) \subseteq RedisHeld(A1) \ RedisHeld(A1')
           /\ last'.n >= Cardinality(RedisHeld(A1) \ RedisHeld(A1'))]_vars

\* deleteByTags counted the two keys, which are gone.
C39_RemovesWitness ==
    /\ last.op = "deleteByTags"
    /\ last.n = 2
    /\ A1.cache = <<>>
    /\ SeqToSet(A1.tagKeys["t1"]) = {"a", "b"}

====
